---- MODULE Spec2Model ----
(***************************************************************************)
(* A model of the content-brief generator: the provider adapter            *)
(* (ai_provider.py), the brief orchestrator (brief_generator.py), the two  *)
(* profile stores (client_manager.py, supabase_client_manager.py) and the  *)
(* document formatter (document_formatter.py).                             *)
(*                                                                         *)
(* Python values are modelled as follows.  A str is a TLA+ string; the     *)
(* value None is the string None below.  Text that the code builds by      *)
(* concatenation or by ', '.join is a sequence of string tokens, so that   *)
(* order, separators and repetition are visible.  A dict is a function     *)
(* whose DOMAIN is its key set; the insertion-ordered dict brief_sections  *)
(* is a sequence of <<key, value>> pairs.                                  *)
(***************************************************************************)
EXTENDS Naturals, Sequences, FiniteSets, TLC

VARIABLES
    environ,              \* os.environ restricted to the configuration keys
    STREAMLIT_AVAILABLE,  \* ai_provider.py:11-15, whether streamlit imported
    secrets,              \* st.secrets: [found |-> BOOLEAN, data |-> dict]
    ai,                   \* the AIProvider object held by BriefGenerator
    listed,               \* last result of AIProvider.list_available_providers
    pc,                   \* position of generate_brief: "idle", 1..13, "done"
    args,                 \* arguments of the running generate_brief
    brief_sections,       \* the local ordered dict of generate_brief
    calls,                \* every request sent to a provider endpoint, in order
    answers,              \* per request of calls, in order: "ok" or the error
    inflight,             \* indices into calls of requests not yet answered
    outcome,              \* what generate_brief gave its caller
    fmt_log,              \* direct calls of the two formatters, with effects
    files,                \* clients_dir: file stem -> the JSON document in it
    rows,                 \* the clients table: client_name -> row
    last,                 \* the latest store operation and what it returned
    turn,                 \* which profile store runs the operation next
    nops,                 \* operations issued to the stores so far
    outage,               \* whether a request to the database has ever failed
    given,                \* per store and profile, the name create was given
    brief_data,           \* the record handed to create_brief_document
    doc,                  \* what create_brief_document built and returned
    session,              \* st.session_state of the web front end
    front                 \* the front-end handler in progress and its report

cfgVars == <<environ, STREAMLIT_AVAILABLE, secrets>>
genVars == <<pc, args, brief_sections, calls, answers, inflight, outcome>>
storeVars == <<files, rows, last, turn, nops, outage, given>>
docVars == <<brief_data, doc>>
frontVars == <<session, front>>
\* The variables of the profile stores, the document formatter and the
\* front ends.
extVars == <<storeVars, docVars, frontVars>>
\* The variables of the provider adapter and of the brief orchestrator.
briefVars == <<cfgVars, ai, listed, genVars, fmt_log>>
vars == <<environ, STREAMLIT_AVAILABLE, secrets, ai, listed,
          pc, args, brief_sections, calls, answers, inflight, outcome, fmt_log,
          files, rows, last, turn, nops, outage, given, brief_data, doc,
          session, front>>

(***************************************************************************)
(* Bounds of the model.                                                    *)
(***************************************************************************)
\* Most entries a secrets file holds in the provider specification.
MaxSecrets == 2
\* Longest secondary-keyword list handed to generate_brief.
MaxKws == 2
\* Longest list of a restrictions category in the formatter specification.
MaxItems == 1
\* Most direct formatter calls in one behaviour of the formatter specification.
MaxFormatCalls == 2
\* Most operations a caller issues in one behaviour of the store specification.
MaxOps == 3
\* Longest section text handed to the document formatter, in tokens.
MaxContentLen == 3

(***************************************************************************)
(* Python helpers.                                                         *)
(***************************************************************************)
None == "None"

\* Truth value of an Optional[str]: None and "" are falsy.
TruthyStr(v) == v /= None /\ v /= ""

\* dict.get(key, default)
DictGet(d, key, default) == IF key \in DOMAIN d THEN d[key] ELSE default

\* sep.join(items), as tokens: the items in order with sep between neighbours.
RECURSIVE Join(_, _)
Join(sep, items) ==
    IF Len(items) = 0 THEN <<>>
    ELSE IF Len(items) = 1 THEN <<items[1]>>
    ELSE <<items[1], sep>> \o Join(sep, Tail(items))

(***************************************************************************)
(* ai_provider.py                                                          *)
(***************************************************************************)
\* The five providers, in the order list_available_providers tests them.
KnownProviders == <<"openai", "claude", "grok", "perplexity", "mistral">>

ProviderSet == {KnownProviders[i] : i \in 1..Len(KnownProviders)}

\* The configuration key holding each provider's credential.
ApiKeyName(p) ==
    CASE p = "openai" -> "OPENAI_API_KEY"
      [] p = "claude" -> "CLAUDE_API_KEY"
      [] p = "grok" -> "GROK_API_KEY"
      [] p = "perplexity" -> "PERPLEXITY_API_KEY"
      [] p = "mistral" -> "MISTRAL_API_KEY"

ConfigKeys == {ApiKeyName(p) : p \in ProviderSet} \cup {"DEFAULT_AI_PROVIDER"}

\* st.secrets.get(key, default); a missing secrets file raises
\* FileNotFoundError, reported here as [raised |-> TRUE].
SecretsGet(key, default) ==
    IF ~secrets.found THEN [raised |-> TRUE, value |-> None]
    ELSE [raised |-> FALSE, value |-> DictGet(secrets.data, key, default)]

\* AIProvider._get_config: the environment first, then Streamlit secrets.
GetConfig(key, default) ==
    IF TruthyStr(environ[key]) THEN environ[key]
    ELSE IF STREAMLIT_AVAILABLE /\ ~SecretsGet(key, default).raised
         THEN SecretsGet(key, default).value
         ELSE default

\* self.provider = provider or self._get_config('DEFAULT_AI_PROVIDER', 'openai')
ResolveProvider(provider) ==
    IF TruthyStr(provider) THEN provider
    ELSE GetConfig("DEFAULT_AI_PROVIDER", "openai")

\* self.api_keys, built at construction.
ApiKeys == [p \in ProviderSet |-> GetConfig(ApiKeyName(p), None)]

KeyMissing_knownOnly(api_keys, provider) ==
    provider \in ProviderSet /\ ~TruthyStr(api_keys[provider])

\* not self.api_keys.get(self.provider)
KeyMissing(api_keys, provider) ==
    ~TruthyStr(DictGet(api_keys, provider, None))

Unconstructed == [status |-> "unconstructed", requested |-> None,
                  provider |-> None,
                  api_keys |-> [p \in ProviderSet |-> None]]

\* AIProvider.__init__ (and BriefGenerator.__init__, which only wraps it):
\* the object, or the ValueError raised instead of it; requested records
\* the constructor's argument.
NewAIProvider(provider) ==
    LET resolved == ResolveProvider(provider)
        keys == ApiKeys
    IN  IF KeyMissing(keys, resolved)
        THEN [status |-> "ValueError", requested |-> provider,
              provider |-> resolved, api_keys |-> keys]
        ELSE [status |-> "constructed", requested |-> provider,
              provider |-> resolved, api_keys |-> keys]

ListAvailable_noGrok ==
    SelectSeq(<<"openai", "claude", "perplexity", "mistral">>,
              LAMBDA p : TruthyStr(GetConfig(ApiKeyName(p), None)))

\* AIProvider.list_available_providers: the providers whose credential
\* _get_config finds, appended in the fixed order.
ListAvailable == SelectSeq(KnownProviders,
                           LAMBDA p : TruthyStr(GetConfig(ApiKeyName(p), None)))

(***************************************************************************)
(* The request each provider variant sends (ai_provider.py:66-167).        *)
(***************************************************************************)
ModelOf(p) ==
    CASE p = "openai" -> "gpt-4o"
      [] p = "claude" -> "claude-3-5-sonnet-20241022"
      [] p = "grok" -> "grok-beta"
      [] p = "perplexity" -> "llama-3.1-sonar-large-128k-online"
      [] p = "mistral" -> "mistral-large-latest"

EndpointOf(p) ==
    CASE p = "openai" -> "openai.chat.completions.create"
      [] p = "claude" -> "anthropic.messages.create"
      [] p = "grok" -> "https://api.x.ai/v1/chat/completions"
      [] p = "perplexity" -> "https://api.perplexity.ai/chat/completions"
      [] p = "mistral" -> "https://api.mistral.ai/v1/chat/completions"

\* Claude takes the system prompt as a parameter, the others as a message.
SystemAs(p) == IF p = "claude" THEN "system parameter" ELSE "system message"

VariantRequest_defaultTemperature(p, system_prompt, user_prompt, temperature) ==
    [variant |-> p, endpoint |-> EndpointOf(p), model |-> ModelOf(p),
     api_key |-> ai.api_keys[p], system_as |-> SystemAs(p),
     system |-> system_prompt, user |-> user_prompt,
     temperature |-> IF p = "claude" THEN "1.0" ELSE temperature]

\* A variant that authorises every request with the first credential held.
VariantRequest_openaiKey(p, system_prompt, user_prompt, temperature) ==
    [variant |-> p, endpoint |-> EndpointOf(p), model |-> ModelOf(p),
     api_key |-> ai.api_keys["openai"], system_as |-> SystemAs(p),
     system |-> system_prompt, user |-> user_prompt,
     temperature |-> temperature]

\* _generate_openai, _generate_claude, _generate_grok, _generate_perplexity,
\* _generate_mistral: the one request the variant sends.
VariantRequest(p, system_prompt, user_prompt, temperature) ==
    [variant |-> p, endpoint |-> EndpointOf(p), model |-> ModelOf(p),
     api_key |-> ai.api_keys[p], system_as |-> SystemAs(p),
     system |-> system_prompt, user |-> user_prompt,
     temperature |-> temperature]

Generate_fourBranches(system_prompt, user_prompt, temperature) ==
    IF ai.provider \in ProviderSet \ {"mistral"}
    THEN [raised |-> FALSE, exc |-> None,
          request |-> VariantRequest(ai.provider, system_prompt,
                                     user_prompt, temperature)]
    ELSE [raised |-> TRUE, exc |-> "ValueError: Unsupported provider",
          request |-> None]

\* AIProvider.generate: dispatch on self.provider; an unknown name raises.
Generate(system_prompt, user_prompt, temperature) ==
    IF ai.provider \in ProviderSet
    THEN [raised |-> FALSE, exc |-> None,
          request |-> VariantRequest(ai.provider, system_prompt,
                                     user_prompt, temperature)]
    ELSE [raised |-> TRUE, exc |-> "ValueError: Unsupported provider",
          request |-> None]

\* What a provider can answer: a completion text, or a failure raised by
\* the SDK, by raise_for_status or by indexing a malformed payload.
Responses == {"completion A", "completion B"}

ProviderErrors == {"HTTPError", "MalformedResponse"}

(***************************************************************************)
(* brief_generator.py                                                      *)
(***************************************************************************)
\* BriefGenerator._get_system_instruction: one constant string.
SystemInstruction == "System Instruction: Absolute Mode ... Use UK English."

\* The temperature _call_ai passes (0.7), as written in the source.
CallAiTemperature == "0.7"

\* BriefGenerator._call_ai
CallAi(system_instruction, user_prompt) ==
    Generate(system_instruction, user_prompt, CallAiTemperature)

\* The steps of generate_brief in source order: ten model-generated
\* sections, two locally formatted ones, then the metadata block.
Steps == <<"page_type", "page_title", "meta_description", "target_url", "h1",
           "summary_bullets", "internal_links", "audience", "cta",
           "restrictions", "requirements", "headings_faq", "metadata">>

LocalSections == {"restrictions", "requirements"}

GeneratedSections ==
    {Steps[i] : i \in 1..Len(Steps)} \ (LocalSections \cup {"metadata"})

\* A prompt is the template's first line followed, per interpolation, by
\* the label before it and the interpolated text; client_data[key] of a
\* missing key raises KeyError instead.
Ok(tokens) == [raised |-> FALSE, exc |-> None, value |-> tokens]

KeyError(key) == [raised |-> TRUE, exc |-> "KeyError", value |-> <<key>>]

Field(label, tokens) == <<label>> \o tokens

\* _generate_page_type (lines 124-141)
PageTypePrompt(cd, topic, primary_kw, secondary_kws) ==
    Ok(<<"Determine whether this content should be a Landing Page or Blog Post.">>
       \o Field("Topic: ", <<topic>>)
       \o Field("Primary keyword: ", <<primary_kw>>)
       \o Field("Secondary keywords: ", Join(", ", secondary_kws)))

\* _generate_page_title (lines 143-167)
PageTitlePrompt(cd, topic, primary_kw, secondary_kws) ==
    IF "client_name" \notin DOMAIN cd THEN KeyError("client_name")
    ELSE Ok(<<"Create the Page Title following SEO best practices:">>
            \o Field("Topic: ", <<topic>>)
            \o Field("Primary keyword: ", <<primary_kw>>)
            \o Field("Brand: ", <<cd["client_name"]>>)
            \o Field("- Lead with ", <<primary_kw>>))

\* _generate_meta_description (lines 169-191)
MetaDescriptionPrompt(cd, topic, primary_kw, secondary_kws) ==
    Ok(<<"Write the Meta Description:">>
       \o Field("Topic: ", <<topic>>)
       \o Field("Primary keyword: ", <<primary_kw>>)
       \o Field("Secondary keywords: ", Join(", ", secondary_kws))
       \o Field("- Include ", <<primary_kw>>))

\* _generate_target_url (lines 193-214)
TargetUrlPrompt(cd, topic, primary_kw, secondary_kws) ==
    IF "site" \notin DOMAIN cd THEN KeyError("site")
    ELSE Ok(<<"Generate the Target URL:">>
            \o Field("Site: ", <<cd["site"]>>)
            \o Field("Topic: ", <<topic>>)
            \o Field("Primary keyword: ", <<primary_kw>>))

\* _generate_h1 (lines 216-235)
H1Prompt(cd, topic, primary_kw, secondary_kws) ==
    Ok(<<"Create the H1 Heading:">>
       \o Field("Topic: ", <<topic>>)
       \o Field("Primary keyword: ", <<primary_kw>>)
       \o Field("- Contain ", <<primary_kw>>))

\* _generate_summary_bullets (lines 237-258)
SummaryBulletsPrompt(cd, topic, primary_kw, secondary_kws) ==
    Ok(<<"Write 4-6 short bullet points (one line each) summarising key outcomes:">>
       \o Field("Topic: ", <<topic>>)
       \o Field("Primary keyword: ", <<primary_kw>>))

\* _generate_internal_links with the keyword line showing the first
\* secondary keyword only.
InternalLinksPrompt_firstKeyword(cd, topic, primary_kw, secondary_kws) ==
    IF "site" \notin DOMAIN cd THEN KeyError("site")
    ELSE Ok(<<"Build Internal Linking table:">>
            \o Field("Site: ", <<cd["site"]>>)
            \o Field("Primary keyword: ", <<primary_kw>>)
            \o Field("Secondary keywords: ",
                     IF Len(secondary_kws) = 0 THEN <<>>
                     ELSE <<secondary_kws[1]>>))

\* _generate_internal_links (lines 260-284)
InternalLinksPrompt(cd, topic, primary_kw, secondary_kws) ==
    IF "site" \notin DOMAIN cd THEN KeyError("site")
    ELSE Ok(<<"Build Internal Linking table:">>
            \o Field("Site: ", <<cd["site"]>>)
            \o Field("Primary keyword: ", <<primary_kw>>)
            \o Field("Secondary keywords: ", Join(", ", secondary_kws)))

\* _generate_audience (lines 286-306)
AudiencePrompt(cd, topic, primary_kw, secondary_kws) ==
    IF "client_name" \notin DOMAIN cd THEN KeyError("client_name")
    ELSE Ok(<<"Identify who the content is written for:">>
            \o Field("Topic: ", <<topic>>)
            \o Field("Primary keyword: ", <<primary_kw>>)
            \o Field("Client: ", <<cd["client_name"]>>))

\* _generate_cta (lines 308-332)
CtaPrompt(cd, topic, primary_kw, secondary_kws) ==
    IF "site" \notin DOMAIN cd THEN KeyError("site")
    ELSE Ok(<<"Suggest Primary and Secondary CTAs and logical next step:">>
            \o Field("Site: ", <<cd["site"]>>)
            \o Field("Topic: ", <<topic>>)
            \o Field("Primary keyword: ", <<primary_kw>>))

\* client_data.get('requirements', {}).get('mandatory_mentions', [])
MandatoryMentions(cd) ==
    DictGet(DictGet(cd, "requirements", <<>>), "mandatory_mentions", <<>>)

\* _generate_headings_faq (lines 382-421)
HeadingsFaqPrompt(cd, topic, primary_kw, secondary_kws) ==
    Ok(<<"Build complete outline for the writer:">>
       \o Field("Topic: ", <<topic>>)
       \o Field("Primary keyword: ", <<primary_kw>>)
       \o Field("Secondary keywords: ", Join(", ", secondary_kws))
       \o Field("Mandatory mentions: ", Join(", ", MandatoryMentions(cd))))

\* The prompt builder generate_brief calls for each generated section.
PromptFor(section, cd, topic, primary_kw, secondary_kws) ==
    CASE section = "page_type" -> PageTypePrompt(cd, topic, primary_kw, secondary_kws)
      [] section = "page_title" -> PageTitlePrompt(cd, topic, primary_kw, secondary_kws)
      [] section = "meta_description" -> MetaDescriptionPrompt(cd, topic, primary_kw, secondary_kws)
      [] section = "target_url" -> TargetUrlPrompt(cd, topic, primary_kw, secondary_kws)
      [] section = "h1" -> H1Prompt(cd, topic, primary_kw, secondary_kws)
      [] section = "summary_bullets" -> SummaryBulletsPrompt(cd, topic, primary_kw, secondary_kws)
      [] section = "internal_links" -> InternalLinksPrompt(cd, topic, primary_kw, secondary_kws)
      [] section = "audience" -> AudiencePrompt(cd, topic, primary_kw, secondary_kws)
      [] section = "cta" -> CtaPrompt(cd, topic, primary_kw, secondary_kws)
      [] section = "headings_faq" -> HeadingsFaqPrompt(cd, topic, primary_kw, secondary_kws)

(***************************************************************************)
(* The two locally formatted sections.                                     *)
(***************************************************************************)
\* for item in lst: output += f"- {item}\n"
RECURSIVE Bullets(_)
Bullets(items) ==
    IF Len(items) = 0 THEN <<>>
    ELSE <<"- ", Head(items), "\n">> \o Bullets(Tail(items))

\* BriefGenerator._format_restrictions (lines 334-354)
FormatRestrictions(client_data) ==
    LET restrictions == DictGet(client_data, "restrictions", <<>>)
    IN  <<"Legal restrictions:\n">>
        \o Bullets(DictGet(restrictions, "legal", <<>>))
        \o <<"\nBrand restrictions:\n">>
        \o Bullets(DictGet(restrictions, "brand", <<>>))
        \o <<"\nSEO restrictions:\n">>
        \o Bullets(DictGet(restrictions, "seo", <<>>))
        \o <<"\nContent-integrity restrictions:\n">>
        \o Bullets(DictGet(restrictions, "content_integrity", <<>>))

\* The source's en dashes are written as hyphens.
SelfCheckLine ==
    "\nSelf-check: all mandatory items - site fit - brand consistent - tone aligned"

FormatRequirements_whenPresent(client_data) ==
    LET reqs == DictGet(client_data, "requirements", <<>>)
        word_count == DictGet(reqs, "word_count", None)
        readability_score == DictGet(reqs, "readability_score", None)
        tone == DictGet(reqs, "tone", None)
        mandatory_mentions == DictGet(reqs, "mandatory_mentions", <<>>)
        schema_required == DictGet(reqs, "schema_required", FALSE)
        images_required == DictGet(reqs, "images_required", 0)
        cta_required == DictGet(reqs, "cta_required", FALSE)
        internal_links_min == DictGet(reqs, "internal_links_min", 0)
    IN  (IF TruthyStr(word_count)
         THEN <<"- Word count: ", word_count, "\n">> ELSE <<>>)
        \o (IF TruthyStr(readability_score)
            THEN <<"- Readability: ", readability_score, "\n">> ELSE <<>>)
        \o (IF "tone" \in DOMAIN reqs THEN <<"- Tone: ", tone, "\n">> ELSE <<>>)
        \o (IF Len(mandatory_mentions) > 0
            THEN <<"- Mandatory mentions: ">>
                 \o Join(", ", mandatory_mentions) \o <<"\n">>
            ELSE <<>>)
        \o (IF schema_required THEN <<"- Schema markup required\n">> ELSE <<>>)
        \o (IF images_required /= 0
            THEN <<"- Minimum images: ", ToString(images_required), "\n">>
            ELSE <<>>)
        \o (IF cta_required THEN <<"- CTA required\n">> ELSE <<>>)
        \o (IF internal_links_min /= 0
            THEN <<"- Minimum internal links: ",
                   ToString(internal_links_min), "\n">>
            ELSE <<>>)
        \o <<SelfCheckLine>>

\* BriefGenerator._format_requirements (lines 356-380).  reqs.get(k) of a
\* missing key is None; each field's falsy value is that of its type.
FormatRequirements(client_data) ==
    LET reqs == DictGet(client_data, "requirements", <<>>)
        word_count == DictGet(reqs, "word_count", None)
        readability_score == DictGet(reqs, "readability_score", None)
        tone == DictGet(reqs, "tone", None)
        mandatory_mentions == DictGet(reqs, "mandatory_mentions", <<>>)
        schema_required == DictGet(reqs, "schema_required", FALSE)
        images_required == DictGet(reqs, "images_required", 0)
        cta_required == DictGet(reqs, "cta_required", FALSE)
        internal_links_min == DictGet(reqs, "internal_links_min", 0)
    IN  (IF TruthyStr(word_count)
         THEN <<"- Word count: ", word_count, "\n">> ELSE <<>>)
        \o (IF TruthyStr(readability_score)
            THEN <<"- Readability: ", readability_score, "\n">> ELSE <<>>)
        \o (IF TruthyStr(tone) THEN <<"- Tone: ", tone, "\n">> ELSE <<>>)
        \o (IF Len(mandatory_mentions) > 0
            THEN <<"- Mandatory mentions: ">>
                 \o Join(", ", mandatory_mentions) \o <<"\n">>
            ELSE <<>>)
        \o (IF schema_required THEN <<"- Schema markup required\n">> ELSE <<>>)
        \o (IF images_required /= 0
            THEN <<"- Minimum images: ", ToString(images_required), "\n">>
            ELSE <<>>)
        \o (IF cta_required THEN <<"- CTA required\n">> ELSE <<>>)
        \o (IF internal_links_min /= 0
            THEN <<"- Minimum internal links: ",
                   ToString(internal_links_min), "\n">>
            ELSE <<>>)
        \o <<SelfCheckLine>>

\* A formatter that kept its output on the object between calls.
RestrictionsEffect_accumulating(client_data) ==
    [text |-> (IF Len(fmt_log) > 0 THEN fmt_log[Len(fmt_log)].text ELSE <<>>)
              \o FormatRestrictions(client_data),
     client_data |-> client_data,
     requests |-> <<>>]

\* _format_restrictions as a call: the text returned, client_data as the
\* call leaves it (only .get is used on it), the requests sent (none).
RestrictionsEffect(client_data) ==
    [text |-> FormatRestrictions(client_data),
     client_data |-> client_data,
     requests |-> <<>>]

\* _format_requirements as a call.
RequirementsEffect(client_data) ==
    [text |-> FormatRequirements(client_data),
     client_data |-> client_data,
     requests |-> <<>>]

(***************************************************************************)
(* The ordered dict brief_sections.                                        *)
(***************************************************************************)
KeySet(d) == {d[i][1] : i \in 1..Len(d)}

Lookup(d, k) == d[CHOOSE i \in 1..Len(d) : d[i][1] = k][2]

DictSet_prepend(d, k, v) == <<(<<k, v>>)>> \o d

\* d[k] = v: a new key goes last, an existing key keeps its place.
DictSet(d, k, v) ==
    IF k \in KeySet(d)
    THEN [i \in 1..Len(d) |-> IF d[i][1] = k THEN <<k, v>> ELSE d[i]]
    ELSE Append(d, <<k, v>>)

(***************************************************************************)
(* generate_brief, step by step.  pc = 0 before the call, pc = i while     *)
(* step Steps[i] is being produced, pc = Done once the call has returned   *)
(* or raised.                                                              *)
(***************************************************************************)
Done == Len(Steps) + 1

NoOutcome == [kind |-> "none", exc |-> None, record |-> <<>>]

Raised(exc) == [kind |-> "raised", exc |-> exc, record |-> <<>>]

Returned(record) == [kind |-> "returned", exc |-> None, record |-> record]

NoArgs == [client_data |-> <<>>, topic |-> None, primary_kw |-> None,
           secondary_kws |-> <<>>]

\* Every provider variant blocks until its response is in hand
\* (client.chat.completions.create, client.messages.create, requests.post).
Blocked_never == FALSE

Blocked == inflight /= {}

\* The step generate_brief takes after the step at position i.
NextStep_repeatFirst(i) ==
    IF i = 1 /\ Len(brief_sections) = 0 THEN 1 ELSE i + 1

NextStep(i) == i + 1

\* An exception inside a step is not caught in generate_brief or _call_ai:
\* the frame, with its partial brief_sections, is unwound.
OnException_swallow(exc) ==
    [pc |-> NextStep(pc),
     brief_sections |-> DictSet(brief_sections, Steps[pc], ""),
     outcome |-> outcome]

OnException(exc) ==
    [pc |-> Done, brief_sections |-> <<>>, outcome |-> Raised(exc)]

MetadataBlock_noSite(d, a) ==
    IF "client_name" \notin DOMAIN a.client_data THEN KeyError("client_name")
    ELSE Ok(DictSet(DictSet(DictSet(DictSet(d,
            "client_name", a.client_data["client_name"]),
            "topic", a.topic),
            "primary_kw", a.primary_kw),
            "secondary_kws", Join(", ", a.secondary_kws)))

MetadataBlock_swapped(d, a) ==
    IF "client_name" \notin DOMAIN a.client_data THEN KeyError("client_name")
    ELSE IF "site" \notin DOMAIN a.client_data THEN KeyError("site")
    ELSE Ok(DictSet(DictSet(DictSet(DictSet(DictSet(d,
            "client_name", a.client_data["client_name"]),
            "topic", a.primary_kw),
            "site", a.client_data["site"]),
            "primary_kw", a.topic),
            "secondary_kws", Join(", ", a.secondary_kws)))

\* Lines 94-99: the five metadata keys, in source order.
MetadataBlock(d, a) ==
    IF "client_name" \notin DOMAIN a.client_data THEN KeyError("client_name")
    ELSE IF "site" \notin DOMAIN a.client_data THEN KeyError("site")
    ELSE Ok(DictSet(DictSet(DictSet(DictSet(DictSet(d,
            "client_name", a.client_data["client_name"]),
            "topic", a.topic),
            "site", a.client_data["site"]),
            "primary_kw", a.primary_kw),
            "secondary_kws", Join(", ", a.secondary_kws)))

\* BriefGenerator(provider) / AIProvider(provider)
Construct(provider) ==
    /\ ai.status = "unconstructed"
    /\ pc = 0
    /\ ai' = NewAIProvider(provider)
    /\ UNCHANGED <<cfgVars, listed, genVars, fmt_log, extVars>>

\* AIProvider.list_available_providers()
ListAvailableProviders ==
    /\ ~listed.called
    /\ pc = 0
    /\ listed' = [called |-> TRUE, providers |-> ListAvailable]
    /\ UNCHANGED <<cfgVars, ai, genVars, fmt_log, extVars>>

\* generate_brief is entered (lines 23-35); it needs a constructed generator.
GenerateBrief(client_data, topic, primary_kw, secondary_kws) ==
    /\ ai.status = "constructed"
    /\ pc = 0
    /\ args' = [client_data |-> client_data, topic |-> topic,
                primary_kw |-> primary_kw, secondary_kws |-> secondary_kws]
    /\ brief_sections' = <<>>
    /\ pc' = 1
    /\ UNCHANGED <<cfgVars, ai, listed, calls, answers, inflight, outcome, fmt_log, extVars>>

Unwind(exc) ==
    /\ pc' = OnException(exc).pc
    /\ brief_sections' = OnException(exc).brief_sections
    /\ outcome' = OnException(exc).outcome

\* A _generate_<section> method up to the moment its request is sent:
\* the prompt is built, then _call_ai -> AIProvider.generate -> variant.
IssueCall ==
    /\ pc \in 1..Len(Steps)
    /\ Steps[pc] \in GeneratedSections
    /\ ~Blocked
    /\ LET prompt == PromptFor(Steps[pc], args.client_data, args.topic,
                               args.primary_kw, args.secondary_kws)
           sent == CallAi(SystemInstruction, prompt.value)
       IN  IF prompt.raised
           THEN Unwind(prompt.exc) /\ UNCHANGED <<calls, inflight>>
           ELSE IF sent.raised
           THEN Unwind(sent.exc) /\ UNCHANGED <<calls, inflight>>
           ELSE /\ calls' = Append(calls, sent.request)
                /\ inflight' = inflight \cup {Len(calls) + 1}
                /\ UNCHANGED <<pc, brief_sections, outcome>>
    /\ UNCHANGED <<cfgVars, ai, listed, args, answers, fmt_log, extVars>>

\* The provider answers; the text is stored under the section's key.
CallReturns(text) ==
    /\ pc \in 1..Len(Steps)
    /\ inflight /= {}
    /\ inflight' = {}
    /\ brief_sections' = DictSet(brief_sections, Steps[pc], text)
    /\ pc' = NextStep(pc)
    /\ answers' = Append(answers, "ok")
    /\ UNCHANGED <<cfgVars, ai, listed, args, calls, outcome, fmt_log, extVars>>

\* The request fails: the SDK raises, raise_for_status raises, or the
\* payload cannot be indexed.
CallFails(err) ==
    /\ pc \in 1..Len(Steps)
    /\ inflight /= {}
    /\ inflight' = {}
    /\ Unwind(err)
    /\ answers' = Append(answers, err)
    /\ UNCHANGED <<cfgVars, ai, listed, args, calls, fmt_log, extVars>>

\* What a formatter call does besides returning: to its argument and to
\* the provider.  Neither formatter assigns into client_data or calls _call_ai.
ApplyEffect(eff) ==
    /\ args' = [args EXCEPT !.client_data = eff.client_data]
    /\ calls' = calls \o eff.requests
    /\ inflight' = inflight \cup (Len(calls) + 1 .. Len(calls) + Len(eff.requests))

\* Line 84
FormatRestrictionsStep ==
    /\ pc \in 1..Len(Steps)
    /\ Steps[pc] = "restrictions"
    /\ LET eff == RestrictionsEffect(args.client_data)
       IN  /\ brief_sections' = DictSet(brief_sections, "restrictions", eff.text)
           /\ ApplyEffect(eff)
    /\ pc' = NextStep(pc)
    /\ UNCHANGED <<cfgVars, ai, listed, answers, outcome, fmt_log, extVars>>

\* Line 87
FormatRequirementsStep ==
    /\ pc \in 1..Len(Steps)
    /\ Steps[pc] = "requirements"
    /\ LET eff == RequirementsEffect(args.client_data)
       IN  /\ brief_sections' = DictSet(brief_sections, "requirements", eff.text)
           /\ ApplyEffect(eff)
    /\ pc' = NextStep(pc)
    /\ UNCHANGED <<cfgVars, ai, listed, answers, outcome, fmt_log, extVars>>

\* _format_restrictions called on its own, as a unit test would.
FormatRestrictionsCall ==
    /\ pc = 0
    /\ Len(fmt_log) < MaxFormatCalls
    /\ LET eff == RestrictionsEffect(args.client_data)
       IN  /\ fmt_log' = Append(fmt_log,
                  [fn |-> "restrictions", client_data |-> args.client_data,
                   after |-> eff.client_data, text |-> eff.text,
                   requests |-> eff.requests])
           /\ ApplyEffect(eff)
    /\ UNCHANGED <<cfgVars, ai, listed, pc, brief_sections, answers, outcome, extVars>>

\* _format_requirements called on its own.
FormatRequirementsCall ==
    /\ pc = 0
    /\ Len(fmt_log) < MaxFormatCalls
    /\ LET eff == RequirementsEffect(args.client_data)
       IN  /\ fmt_log' = Append(fmt_log,
                  [fn |-> "requirements", client_data |-> args.client_data,
                   after |-> eff.client_data, text |-> eff.text,
                   requests |-> eff.requests])
           /\ ApplyEffect(eff)
    /\ UNCHANGED <<cfgVars, ai, listed, pc, brief_sections, answers, outcome, extVars>>

\* Lines 94-101: metadata, then return brief_sections.
AddMetadataAndReturn ==
    /\ pc \in 1..Len(Steps)
    /\ Steps[pc] = "metadata"
    /\ LET m == MetadataBlock(brief_sections, args)
       IN  IF m.raised
           THEN Unwind(m.exc)
           ELSE /\ brief_sections' = m.value
                /\ outcome' = Returned(m.value)
                /\ pc' = Done
    /\ UNCHANGED <<cfgVars, ai, listed, args, calls, answers, inflight, fmt_log, extVars>>

(***************************************************************************)
(* Inputs.                                                                 *)
(***************************************************************************)
EnvCredential(p) ==
    CASE p = "openai" -> "sk-env-openai"
      [] p = "claude" -> "sk-env-claude"
      [] p = "grok" -> "sk-env-grok"
      [] p = "perplexity" -> "sk-env-perplexity"
      [] p = "mistral" -> "sk-env-mistral"

SecretCredential(p) ==
    CASE p = "openai" -> "sk-secret-openai"
      [] p = "claude" -> "sk-secret-claude"
      [] p = "grok" -> "sk-secret-grok"
      [] p = "perplexity" -> "sk-secret-perplexity"
      [] p = "mistral" -> "sk-secret-mistral"

ProviderOfKey(k) == CHOOSE p \in ProviderSet : ApiKeyName(p) = k

\* The provider argument of the constructors: absent, empty, a known
\* provider, or a name that is none of the five.
Overrides == {None, "", "bogus"} \cup ProviderSet

\* Environments: each credential unset, empty or set; the default provider
\* unset, a known name or an unknown one.
Environments ==
    {e \in [ConfigKeys -> {None, "", "claude", "bogus"}
                          \cup {EnvCredential(p) : p \in ProviderSet}] :
        /\ e["DEFAULT_AI_PROVIDER"] \in {None, "claude", "bogus"}
        /\ \A p \in ProviderSet :
              e[ApiKeyName(p)] \in {None, "", EnvCredential(p)}}

\* Secrets files of at most MaxSecrets entries: a credential per provider,
\* and a default provider that may be the empty string.
SecretsFiles ==
    {d \in UNION {[S -> {"", "mistral"}
                        \cup {SecretCredential(p) : p \in ProviderSet}] :
                  S \in {T \in SUBSET ConfigKeys : Cardinality(T) <= MaxSecrets}} :
        \A k \in DOMAIN d :
            IF k = "DEFAULT_AI_PROVIDER" THEN d[k] \in {"", "mistral"}
            ELSE d[k] = SecretCredential(ProviderOfKey(k))}

NoSecrets == [found |-> FALSE, data |-> <<>>]

\* Where Streamlit is not installed there is no st.secrets at all.
SecretStores ==
    {[streamlit |-> FALSE, secrets |-> NoSecrets],
     [streamlit |-> TRUE, secrets |-> NoSecrets]}
    \cup {[streamlit |-> TRUE, secrets |-> [found |-> TRUE, data |-> d]] :
          d \in SecretsFiles}

EnvAllConfigured ==
    [k \in ConfigKeys |->
        IF k = "DEFAULT_AI_PROVIDER" THEN None
        ELSE EnvCredential(ProviderOfKey(k))]

EnvNothing == [k \in ConfigKeys |-> None]

EnvClaudeDefault ==
    [k \in ConfigKeys |->
        IF k = "DEFAULT_AI_PROVIDER" THEN "claude"
        ELSE IF k = "CLAUDE_API_KEY" THEN EnvCredential("claude")
        ELSE IF k = "OPENAI_API_KEY" THEN "" ELSE None]

MistralSecrets ==
    [found |-> TRUE,
     data |-> [k \in {"MISTRAL_API_KEY", "DEFAULT_AI_PROVIDER"} |->
                  IF k = "MISTRAL_API_KEY" THEN SecretCredential("mistral")
                  ELSE "mistral"]]

\* The configurations the orchestrator is exercised under.
BriefConfigs ==
    {[environ |-> EnvAllConfigured, streamlit |-> FALSE, secrets |-> NoSecrets],
     [environ |-> EnvClaudeDefault, streamlit |-> TRUE, secrets |-> NoSecrets],
     [environ |-> EnvNothing, streamlit |-> TRUE, secrets |-> MistralSecrets],
     [environ |-> EnvNothing, streamlit |-> FALSE, secrets |-> NoSecrets]}

ProfileFull ==
    [client_name |-> "Acme", site |-> "acme.com",
     restrictions |-> [legal |-> <<"no medical claims">>, brand |-> <<>>,
                       seo |-> <<"no keyword stuffing", "no clickbait">>,
                       content_integrity |-> <<>>],
     requirements |-> [word_count |-> "800-1200", readability_score |-> "",
                       tone |-> "plain",
                       mandatory_mentions |-> <<"Acme Ltd", "ISO 9001">>,
                       schema_required |-> FALSE, images_required |-> 0,
                       cta_required |-> TRUE, internal_links_min |-> 6]]

ProfileMinimal == [client_name |-> "Acme", site |-> "acme.com"]

ProfileNoSite == [client_name |-> "Acme"]

ProfileNoName == [site |-> "acme.com"]

Profiles == {ProfileFull, ProfileMinimal, ProfileNoSite, ProfileNoName}

Topics == {"Widgets"}

PrimaryKws == {"widget"}

\* Secondary keywords as the caller lists them (not in sorted order).
KeywordPool == <<"tool", "gadget", "cog", "sprocket">>

\* The lists of at most MaxKws secondary keywords, the empty list included.
SecondaryKwLists ==
    {SubSeq(KeywordPool, 1, n) : n \in 0..MaxKws} \cup {<<"gadget", "tool">>}

RestrictionCategories == {"legal", "brand", "seo", "content_integrity"}

RestrictionItems == {"no medical claims", "no clickbait"}

ItemLists == UNION {[1..n -> RestrictionItems] : n \in 0..MaxItems}

\* restrictions dicts holding any of the four categories.
RestrictionDicts ==
    UNION {[S -> ItemLists] : S \in SUBSET RestrictionCategories}

RequirementFields ==
    {"word_count", "readability_score", "tone", "mandatory_mentions",
     "schema_required", "images_required", "cta_required", "internal_links_min"}

\* A value of each requirement that Python takes as true ...
TruthyValue(k) ==
    CASE k = "word_count" -> "800-1200"
      [] k = "readability_score" -> "60+"
      [] k = "tone" -> "plain"
      [] k = "mandatory_mentions" -> <<"Acme Ltd", "ISO 9001">>
      [] k = "schema_required" -> TRUE
      [] k = "images_required" -> 2
      [] k = "cta_required" -> TRUE
      [] k = "internal_links_min" -> 6

\* ... and the store's default where that is falsy, else the type's falsy value.
FalsyValue(k) ==
    CASE k = "word_count" -> ""
      [] k = "readability_score" -> ""
      [] k = "tone" -> ""
      [] k = "mandatory_mentions" -> <<>>
      [] k = "schema_required" -> FALSE
      [] k = "images_required" -> 0
      [] k = "cta_required" -> FALSE
      [] k = "internal_links_min" -> 0

\* requirements dicts: each field missing, falsy or truthy.
RequirementDicts ==
    UNION {{[k \in S |-> IF k \in T THEN TruthyValue(k) ELSE FalsyValue(k)] :
            T \in SUBSET S} : S \in SUBSET RequirementFields}

\* The profiles the formatters are applied to.
FormatProfiles ==
    {ProfileFull, ProfileMinimal}
    \cup {[client_name |-> "Acme", site |-> "acme.com", restrictions |-> r] :
          r \in RestrictionDicts}
    \cup {[client_name |-> "Acme", site |-> "acme.com", requirements |-> q] :
          q \in RequirementDicts}

(***************************************************************************)
(* The profile stores (client_manager.py, supabase_client_manager.py).     *)
(*                                                                         *)
(* A client name is a sequence of characters, so that replace, lower and   *)
(* sorted act on it as they do in Python.  A profile is a dict from field  *)
(* name to value; every top-level value carries its kind, dict or not, as  *)
(* isinstance reads it.  The content of a client file is the JSON document *)
(* json.dump wrote, which json.load gives back as the same dict.           *)
(***************************************************************************)
\* A top-level value that is not a dict (str, list, number, None).
Val(x) == [kind |-> "value", val |-> x]
\* A top-level value that is a dict of sub-keys.
Dict(d) == [kind |-> "dict", val |-> d]
\* isinstance(value, dict)
IsDict(v) == v.kind = "dict"

\* {**d, **u} and d.update(u): the keys of both, u winning.
DictUpdate(d, u) ==
    [k \in DOMAIN d \cup DOMAIN u |-> IF k \in DOMAIN u THEN u[k] ELSE d[k]]

\* d without the keys in ks (dict.pop(k, None) for each of them).
DictPop(d, ks) == [k \in DOMAIN d \ ks |-> d[k]]

\* str.lower() on the characters client names are drawn from.
Lower(c) ==
    CASE c = "A" -> "a"
      [] c = "B" -> "b"
      [] OTHER -> c

\* Code point of a character, the order sorted() compares strings by.
Ord(c) ==
    CASE c = " " -> 32
      [] c = "A" -> 65
      [] c = "B" -> 66
      [] c = "_" -> 95
      [] c = "a" -> 97
      [] c = "b" -> 98

\* a < b for two strings: the first differing character decides, a proper
\* prefix comes first.
RECURSIVE StrLess(_, _)
StrLess(a, b) ==
    IF b = <<>> THEN FALSE
    ELSE IF a = <<>> THEN TRUE
    ELSE IF Head(a) = Head(b) THEN StrLess(Tail(a), Tail(b))
    ELSE Ord(Head(a)) < Ord(Head(b))

\* sorted(names) for a collection of distinct strings.
RECURSIVE Sorted(_)
Sorted(names) ==
    IF names = {} THEN <<>>
    ELSE LET least == CHOOSE x \in names :
                          \A y \in names \ {x} : StrLess(x, y)
         IN  <<least>> \o Sorted(names \ {least})

\* restrictions of both default structures.
DefaultRestrictions ==
    [legal |-> <<>>, brand |-> <<>>, seo |-> <<>>, content_integrity |-> <<>>]

\* requirements of a default structure, word_count as the store sets it.
DefaultRequirements(word_count) ==
    [word_count |-> word_count, readability_score |-> "", tone |-> "",
     mandatory_mentions |-> <<>>, schema_required |-> FALSE,
     images_required |-> 0, cta_required |-> TRUE, internal_links_min |-> 6]

(***************************************************************************)
(* ClientManager: one JSON file per profile (client_manager.py).           *)
(***************************************************************************)
\* ClientManager._get_client_file: the stem of the file a name maps to,
\* client_name.replace(' ', '_').lower().
GetClientFile_asGiven(client_name) == client_name

GetClientFile(client_name) ==
    [i \in 1..Len(client_name) |->
        Lower(IF client_name[i] = " " THEN "_" ELSE client_name[i])]

\* default_structure of ClientManager.create_client.
FileDefaultStructure(client_name) ==
    [client_name |-> Val(client_name),
     site |-> Val(""),
     information |-> Val(<<>>),
     restrictions |-> Dict(DefaultRestrictions),
     requirements |-> Dict(DefaultRequirements(""))]

NotFound == [found |-> FALSE, profile |-> <<>>]
Found(profile) == [found |-> TRUE, profile |-> profile]

\* ClientManager.create_client: refuse when the file exists, else write the
\* defaults overlaid with client_data, client_name forced to the argument.
FileCreateClient_overwrite(fs, client_name, client_data) ==
    LET merged_data == DictUpdate(FileDefaultStructure(client_name), client_data)
    IN  [ret |-> IF GetClientFile(client_name) \in DOMAIN fs
                 THEN "False" ELSE "True",
         files |-> DictUpdate(fs,
                     [f \in {GetClientFile(client_name)} |->
                         [merged_data EXCEPT !["client_name"] = Val(client_name)]])]

FileCreateClient_keepsDataName(fs, client_name, client_data) ==
    IF GetClientFile(client_name) \in DOMAIN fs
    THEN [ret |-> "False", files |-> fs]
    ELSE [ret |-> "True",
          files |-> DictUpdate(fs,
                      [f \in {GetClientFile(client_name)} |->
                          DictUpdate(FileDefaultStructure(client_name),
                                     client_data)])]

FileCreateClient(fs, client_name, client_data) ==
    LET client_file == GetClientFile(client_name)
        merged_data == DictUpdate(FileDefaultStructure(client_name), client_data)
    IN  IF client_file \in DOMAIN fs
        THEN [ret |-> "False", files |-> fs]
        ELSE [ret |-> "True",
              files |-> DictUpdate(fs,
                          [f \in {client_file} |->
                              [merged_data EXCEPT
                                  !["client_name"] = Val(client_name)]])]

\* ClientManager.get_client: None when the file is missing, else its dict.
FileGetClient(fs, client_name) ==
    IF GetClientFile(client_name) \in DOMAIN fs
    THEN Found(fs[GetClientFile(client_name)])
    ELSE NotFound

\* The loop body of update_client for one key of updates: a dict value
\* for a key the profile has is merged into the stored value with
\* dict.update, any other value is assigned.
FileMergeKey_replace(client_data, key, value) == value

FileMergeKey(client_data, key, value) ==
    IF IsDict(value) /\ key \in DOMAIN client_data
    THEN Dict(DictUpdate(client_data[key].val, value.val))
    ELSE value

\* client_data[key].update(value) on a stored value that is no dict has no
\* update attribute.
FileMergeRaises(client_data, updates) ==
    \E key \in DOMAIN updates :
        /\ IsDict(updates[key])
        /\ key \in DOMAIN client_data
        /\ ~IsDict(client_data[key])

\* ClientManager.update_client: False when the profile is missing, else
\* every key of updates merged or assigned and the file rewritten.
FileUpdateClient(fs, client_name, updates) ==
    LET got == FileGetClient(fs, client_name)
        client_data == got.profile
    IN  IF ~got.found THEN [ret |-> "False", files |-> fs]
        ELSE IF FileMergeRaises(client_data, updates)
             THEN [ret |-> "AttributeError", files |-> fs]
             ELSE [ret |-> "True",
                   files |-> [fs EXCEPT ![GetClientFile(client_name)] =
                       [k \in DOMAIN client_data \cup DOMAIN updates |->
                           IF k \in DOMAIN updates
                           THEN FileMergeKey(client_data, k, updates[k])
                           ELSE client_data[k]]]]

\* ClientManager.delete_client: remove the file when it exists.
FileDeleteClient_keep(fs, client_name) ==
    [ret |-> IF GetClientFile(client_name) \in DOMAIN fs
             THEN "True" ELSE "False",
     files |-> fs]

FileDeleteClient(fs, client_name) ==
    LET client_file == GetClientFile(client_name)
    IN  IF client_file \in DOMAIN fs
        THEN [ret |-> "True", files |-> DictPop(fs, {client_file})]
        ELSE [ret |-> "False", files |-> fs]

\* ClientManager.list_clients: the stems of the .json files, sorted.
FileListClients(fs) == Sorted(DOMAIN fs)

(***************************************************************************)
(* SupabaseClientManager: one row per profile in the clients table         *)
(* (supabase_client_manager.py).  The table itself lives in the database   *)
(* service: it is keyed by client_name, and the service fills in id and    *)
(* created_at on insert.  A request made while the service does not        *)
(* answer raises inside the handler, which catches it.                     *)
(***************************************************************************)
\* What the service generates for the columns the caller did not send.
GeneratedColumns == [id |-> Val("generated"), created_at |-> Val("generated")]

\* table.insert(record).execute(): rejected when the key is taken.
TableInsert(table, record) ==
    LET key == record["client_name"].val
        row == DictUpdate(GeneratedColumns, record)
    IN  IF key \in DOMAIN table
        THEN [error |-> TRUE, data |-> <<>>, rows |-> table]
        ELSE [error |-> FALSE, data |-> <<row>>,
              rows |-> DictUpdate(table, [k \in {key} |-> row])]

\* table.select("*").eq("client_name", name).execute()
TableSelect(table, client_name) ==
    IF client_name \in DOMAIN table THEN <<table[client_name]>> ELSE <<>>

\* table.update(record).eq("client_name", name).execute(): the matching
\* row takes the columns of record; rejected when that moves the row onto
\* a key that is taken.
TableUpdate(table, client_name, record) ==
    IF client_name \notin DOMAIN table
    THEN [error |-> FALSE, data |-> <<>>, rows |-> table]
    ELSE LET row == DictUpdate(table[client_name], record)
             key == row["client_name"].val
         IN  IF key /= client_name /\ key \in DOMAIN table
             THEN [error |-> TRUE, data |-> <<>>, rows |-> table]
             ELSE [error |-> FALSE, data |-> <<row>>,
                   rows |-> DictUpdate(DictPop(table, {client_name}),
                                       [k \in {key} |-> row])]

\* table.delete().eq("client_name", name).execute()
TableDelete(table, client_name) ==
    IF client_name \in DOMAIN table
    THEN [error |-> FALSE, data |-> <<table[client_name]>>,
          rows |-> DictPop(table, {client_name})]
    ELSE [error |-> FALSE, data |-> <<>>, rows |-> table]

\* default_structure of SupabaseClientManager.create_client.
SupaDefaultStructure(client_name) ==
    [client_name |-> Val(client_name),
     site |-> Val(""),
     industry |-> Val(""),
     target_audience |-> Val(""),
     brand_voice |-> Val(""),
     content_goals |-> Val(""),
     restrictions |-> Dict(DefaultRestrictions),
     requirements |-> Dict(DefaultRequirements(None))]

NothingWritten == [written |-> FALSE, record |-> <<>>]

\* SupabaseClientManager.create_client: insert the defaults overlaid with
\* client_data; True when the service returns the row, False otherwise.
SupaCreateClient(table, client_name, client_data, up) ==
    LET merged_data == DictUpdate(SupaDefaultStructure(client_name), client_data)
        response == TableInsert(table,
                       [merged_data EXCEPT !["client_name"] = Val(client_name)])
    IN  IF ~up \/ response.error THEN [ret |-> "False", rows |-> table]
        ELSE IF response.data /= <<>>
             THEN [ret |-> "True", rows |-> response.rows]
             ELSE [ret |-> "False", rows |-> response.rows]

\* SupabaseClientManager.get_client: the first matching row, else None.
SupaGetClient(table, client_name, up) ==
    IF up /\ TableSelect(table, client_name) /= <<>>
    THEN Found(TableSelect(table, client_name)[1])
    ELSE NotFound

\* The loop body of update_client for one key of updates: a dict value is
\* merged only into a stored dict, and assigned otherwise.
SupaMergeKey(client_data, key, value) ==
    IF IsDict(value) /\ key \in DOMAIN client_data
    THEN IF IsDict(client_data[key])
         THEN Dict(DictUpdate(client_data[key].val, value.val))
         ELSE value
    ELSE value

\* client_data.pop('id', None); client_data.pop('created_at', None)
SupaPayload_keepsId(client_data) == DictPop(client_data, {"created_at"})

SupaPayload(client_data) == DictPop(client_data, {"id", "created_at"})

\* SupabaseClientManager.update_client: False when the profile is missing,
\* else the merged row without id and created_at is written back.
SupaUpdateClient(table, client_name, updates, up) ==
    LET got == SupaGetClient(table, client_name, up)
        client_data == got.profile
        merged == [k \in DOMAIN client_data \cup DOMAIN updates |->
                      IF k \in DOMAIN updates
                      THEN SupaMergeKey(client_data, k, updates[k])
                      ELSE client_data[k]]
        response == TableUpdate(table, client_name, SupaPayload(merged))
    IN  IF ~got.found
        THEN [ret |-> "False", rows |-> table, payload |-> NothingWritten]
        ELSE IF response.error
             THEN [ret |-> "False", rows |-> table,
                   payload |-> [written |-> TRUE, record |-> SupaPayload(merged)]]
             ELSE [ret |-> IF response.data /= <<>> THEN "True" ELSE "False",
                   rows |-> response.rows,
                   payload |-> [written |-> TRUE, record |-> SupaPayload(merged)]]

\* A delete_client that asks again until the service answers.
SupaDeleteClient_retried(table, client_name, up) ==
    [ret |-> IF TableDelete(table, client_name).data /= <<>>
             THEN "True" ELSE "False",
     rows |-> TableDelete(table, client_name).rows]

\* SupabaseClientManager.delete_client: True when a row was deleted.
SupaDeleteClient(table, client_name, up) ==
    LET response == TableDelete(table, client_name)
    IN  IF ~up THEN [ret |-> "False", rows |-> table]
        ELSE [ret |-> IF response.data /= <<>> THEN "True" ELSE "False",
              rows |-> response.rows]

\* SupabaseClientManager.list_clients: the client_name column, sorted;
\* the empty list when the request fails.
SupaListClients(table, up) ==
    IF up THEN Sorted({table[k]["client_name"].val : k \in DOMAIN table})
    ELSE <<>>

\* SupabaseClientManager.client_exists: get_client(...) is not None.
SupaClientExists(table, client_name, up) ==
    SupaGetClient(table, client_name, up).found

(***************************************************************************)
(* Operations on the two stores.  A caller's operation runs on the file    *)
(* store and then, with the same arguments, on the database store.         *)
(***************************************************************************)
NoOp == [op |-> "none", name |-> <<>>, data |-> <<>>, up |-> TRUE,
         file_ret |-> None, file_got |-> NotFound, file_list |-> <<>>,
         supa_ret |-> None, supa_got |-> NotFound, supa_list |-> <<>>,
         payload |-> NothingWritten]

\* A new operation op(name, data) enters the file store.
Issue(op, client_name, data) ==
    [NoOp EXCEPT !.op = op, !.name = client_name, !.data = data]

FileTurn ==
    /\ turn = "file"
    /\ nops < MaxOps
    /\ turn' = "supabase"
    /\ nops' = nops + 1
    /\ UNCHANGED <<rows, outage, briefVars, docVars, frontVars>>

SupaTurn(op, up) ==
    /\ turn = "supabase"
    /\ last.op = op
    /\ turn' = "file"
    /\ outage' = (outage \/ ~up)
    /\ UNCHANGED <<files, nops, briefVars, docVars, frontVars>>

FileCreate(client_name, client_data) ==
    /\ FileTurn
    /\ LET r == FileCreateClient(files, client_name, client_data)
       IN  /\ files' = r.files
           /\ last' = [Issue("create", client_name, client_data)
                          EXCEPT !.file_ret = r.ret]
           /\ given' = IF r.ret = "True"
                       THEN [given EXCEPT !.file = DictUpdate(@,
                               [f \in {GetClientFile(client_name)} |-> client_name])]
                       ELSE given

FileGet(client_name) ==
    /\ FileTurn
    /\ files' = files
    /\ last' = [Issue("get", client_name, <<>>)
                   EXCEPT !.file_got = FileGetClient(files, client_name)]
    /\ given' = given

FileUpdate(client_name, updates) ==
    /\ FileTurn
    /\ LET r == FileUpdateClient(files, client_name, updates)
       IN  /\ files' = r.files
           /\ last' = [Issue("update", client_name, updates)
                          EXCEPT !.file_ret = r.ret]
           /\ given' = given

FileDelete(client_name) ==
    /\ FileTurn
    /\ LET r == FileDeleteClient(files, client_name)
       IN  /\ files' = r.files
           /\ last' = [Issue("delete", client_name, <<>>)
                          EXCEPT !.file_ret = r.ret]
           /\ given' = [given EXCEPT !.file = DictPop(@, DOMAIN @ \ DOMAIN r.files)]

FileList ==
    /\ FileTurn
    /\ files' = files
    /\ last' = [Issue("list", <<>>, <<>>)
                   EXCEPT !.file_list = FileListClients(files)]
    /\ given' = given

\* client_exists is a method of the database store only: the file store
\* has nothing to run for it.
IssueExists(client_name) ==
    /\ FileTurn
    /\ files' = files
    /\ last' = Issue("exists", client_name, <<>>)
    /\ given' = given

SupaCreate(up) ==
    /\ SupaTurn("create", up)
    /\ LET r == SupaCreateClient(rows, last.name, last.data, up)
       IN  /\ rows' = r.rows
           /\ last' = [last EXCEPT !.supa_ret = r.ret, !.up = up]
           /\ given' = IF r.ret = "True"
                       THEN [given EXCEPT !.supa = DictUpdate(@,
                               [k \in {last.name} |-> last.name])]
                       ELSE given

SupaGet(up) ==
    /\ SupaTurn("get", up)
    /\ rows' = rows
    /\ last' = [last EXCEPT !.supa_got = SupaGetClient(rows, last.name, up),
                            !.up = up]
    /\ given' = given

SupaUpdate(up) ==
    /\ SupaTurn("update", up)
    /\ LET r == SupaUpdateClient(rows, last.name, last.data, up)
       IN  /\ rows' = r.rows
           /\ last' = [last EXCEPT !.supa_ret = r.ret, !.payload = r.payload,
                                   !.up = up]
           /\ given' = [given EXCEPT !.supa =
                           [k \in DOMAIN r.rows |->
                               IF k \in DOMAIN rows THEN @[k] ELSE @[last.name]]]

SupaDelete(up) ==
    /\ SupaTurn("delete", up)
    /\ LET r == SupaDeleteClient(rows, last.name, up)
       IN  /\ rows' = r.rows
           /\ last' = [last EXCEPT !.supa_ret = r.ret, !.up = up]
           /\ given' = [given EXCEPT !.supa = DictPop(@, DOMAIN @ \ DOMAIN r.rows)]

SupaList(up) ==
    /\ SupaTurn("list", up)
    /\ rows' = rows
    /\ last' = [last EXCEPT !.supa_list = SupaListClients(rows, up), !.up = up]
    /\ given' = given

SupaExists(up) ==
    /\ SupaTurn("exists", up)
    /\ rows' = rows
    /\ last' = [last EXCEPT
                   !.supa_ret = IF SupaClientExists(rows, last.name, up)
                                THEN "True" ELSE "False",
                   !.up = up]
    /\ given' = given

(***************************************************************************)
(* Inputs of the profile stores.                                           *)
(***************************************************************************)
\* "A b" and "a_b" map to one file; "B" maps to another.
NameSpaced == <<"A", " ", "b">>
NameSafe == <<"a", "_", "b">>
NameB == <<"B">>
ClientNames == {NameSpaced, NameSafe, NameB}

NoData == <<>>
\* A site and a restrictions dict that names one category only.
DataSite ==
    [site |-> Val("acme.example"),
     restrictions |-> Dict([legal |-> <<"no medical claims">>])]
\* Data that carries a client_name of its own.
DataNamed == [client_name |-> Val(NameB)]
\* Data whose restrictions field is a string.
DataFlat == [restrictions |-> Val("none")]
CreateData == {NoData, DataSite, DataNamed, DataFlat}

PartialBrand == [restrictions |-> Dict([brand |-> <<"never say cheap">>])]
PartialSiteTone ==
    [site |-> Val("new.example"), requirements |-> Dict([tone |-> "formal"])]
PartialRename == [client_name |-> Val(NameB)]
PartialId == [id |-> Val("7")]
UpdatePartials == {PartialBrand, PartialSiteTone, PartialRename, PartialId}

\* No profile in either store and no operation issued.
StoreIdle ==
    /\ files = <<>>
    /\ rows = <<>>
    /\ last = NoOp
    /\ turn = "file"
    /\ nops = 0
    /\ outage = FALSE
    /\ given = [file |-> <<>>, supa |-> <<>>]

NextStore ==
    \/ \E n \in ClientNames, d \in CreateData : FileCreate(n, d)
    \/ \E n \in ClientNames : FileGet(n)
    \/ \E n \in ClientNames, u \in UpdatePartials : FileUpdate(n, u)
    \/ \E n \in ClientNames : FileDelete(n)
    \/ FileList
    \/ \E up \in BOOLEAN : SupaCreate(up)
    \/ \E up \in BOOLEAN : SupaGet(up)
    \/ \E up \in BOOLEAN : SupaUpdate(up)
    \/ \E up \in BOOLEAN : SupaDelete(up)
    \/ \E up \in BOOLEAN : SupaList(up)
    \/ \E n \in ClientNames : IssueExists(n)
    \/ \E up \in BOOLEAN : SupaExists(up)

\* Before create_brief_document: nothing built, nothing on disk.
NoDocument == [status |-> "none", body |-> <<>>, filepath |-> <<>>,
               dirs |-> {}, saved |-> {}]

(***************************************************************************)
(* The state of the front ends before any handler has run.                 *)
(***************************************************************************)
\* A session entry holding None, and one holding a value.
Unset == [set |-> FALSE, value |-> <<>>]
SetTo(v) == [set |-> TRUE, value |-> v]

\* init_session_state (app.py:42-55): the three entries start as None.
NoSession == [client_data |-> Unset, generated_brief |-> Unset,
              selected_provider |-> Unset]

\* No front end is started: app is "cli" or "web" once one is; running is
\* the front end whose handler is inside generate_brief, report the
\* message the last handler left on screen.
FrontIdle == [app |-> "none", running |-> "none", provider |-> None,
              report |-> "none"]

(***************************************************************************)
(* Specifications.                                                         *)
(***************************************************************************)
InitRest ==
    /\ session = NoSession
    /\ front = FrontIdle
    /\ ai = Unconstructed
    /\ listed = [called |-> FALSE, providers |-> <<>>]
    /\ pc = 0
    /\ brief_sections = <<>>
    /\ calls = <<>>
    /\ answers = <<>>
    /\ inflight = {}
    /\ outcome = NoOutcome
    /\ fmt_log = <<>>
    /\ StoreIdle
    /\ doc = NoDocument

\* The orchestrator: a generator is constructed, then generate_brief runs.
InitBrief ==
    /\ \E c \in BriefConfigs :
          /\ environ = c.environ
          /\ STREAMLIT_AVAILABLE = c.streamlit
          /\ secrets = c.secrets
    /\ args = NoArgs
    /\ brief_data = <<>>
    /\ InitRest

NextBrief ==
    \/ \E provider \in Overrides : Construct(provider)
    \/ \E cd \in Profiles, t \in Topics, pk \in PrimaryKws,
          sks \in SecondaryKwLists : GenerateBrief(cd, t, pk, sks)
    \/ IssueCall
    \/ \E text \in Responses : CallReturns(text)
    \/ \E err \in ProviderErrors : CallFails(err)
    \/ FormatRestrictionsStep
    \/ FormatRequirementsStep
    \/ AddMetadataAndReturn

SpecBrief == InitBrief /\ [][NextBrief]_vars

\* The provider adapter alone, under every configuration of the bounds.
InitProvider ==
    /\ environ \in Environments
    /\ \E s \in SecretStores :
          /\ STREAMLIT_AVAILABLE = s.streamlit
          /\ secrets = s.secrets
    /\ args = NoArgs
    /\ brief_data = <<>>
    /\ InitRest

NextProvider ==
    \/ \E provider \in Overrides : Construct(provider)
    \/ ListAvailableProviders

SpecProvider == InitProvider /\ [][NextProvider]_vars

\* The two formatters alone, called repeatedly on one profile.
InitFormat ==
    /\ environ = EnvAllConfigured
    /\ STREAMLIT_AVAILABLE = FALSE
    /\ secrets = NoSecrets
    /\ \E cd \in FormatProfiles : args = [NoArgs EXCEPT !.client_data = cd]
    /\ brief_data = <<>>
    /\ InitRest

NextFormat ==
    \/ FormatRestrictionsCall
    \/ FormatRequirementsCall

SpecFormat == InitFormat /\ [][NextFormat]_vars

\* The two profile stores, empty at first, under every operation sequence
\* of the bounds.
InitStore ==
    /\ environ = EnvNothing
    /\ STREAMLIT_AVAILABLE = FALSE
    /\ secrets = NoSecrets
    /\ args = NoArgs
    /\ brief_data = <<>>
    /\ InitRest

SpecStore == InitStore /\ [][NextStore]_vars


(***************************************************************************)
(* Properties.                                                             *)
(***************************************************************************)
\* The twelve section keys in the order the brief presents them.
FixedSectionOrder ==
    <<"page_type", "page_title", "meta_description", "target_url", "h1",
      "summary_bullets", "internal_links", "audience", "cta",
      "restrictions", "requirements", "headings_faq">>

SectionKeySet == {FixedSectionOrder[i] : i \in 1..Len(FixedSectionOrder)}

MetadataKeySet == {"client_name", "topic", "site", "primary_kw", "secondary_kws"}

\* The sections whose text a provider writes, in the order of their calls.
CallOrder ==
    <<"page_type", "page_title", "meta_description", "target_url", "h1",
      "summary_bullets", "internal_links", "audience", "cta", "headings_faq">>

ValidRequest ==
    /\ {"client_name", "site"} \subseteq DOMAIN args.client_data
    /\ Len(args.secondary_kws) > 0

\* The prompt of the running request for section s.
PromptOf(s) ==
    PromptFor(s, args.client_data, args.topic, args.primary_kw,
              args.secondary_kws).value

\* C1: generate_brief either raises or returns a record whose key set is
\* exactly the twelve section keys plus the five metadata keys, each once;
\* for a profile with client_name and site and a non-empty keyword list a
\* finished call has done one or the other.
C1_ExactKeySet ==
    /\ outcome.kind = "returned" =>
          /\ KeySet(outcome.record) = SectionKeySet \cup MetadataKeySet
          /\ Len(outcome.record) = Cardinality(SectionKeySet \cup MetadataKeySet)
    /\ (pc = Done /\ ValidRequest) => outcome.kind \in {"returned", "raised"}
    /\ pc /= Done => outcome.kind = "none"

C1_Witness ==
    /\ outcome.kind = "returned"
    /\ ValidRequest
    /\ args.client_data = ProfileMinimal

\* C2: once a provider call has failed, generate_brief has raised that
\* failure, holds no record, and the failed call is the last one issued.
C2_FailurePropagates ==
    \A i \in 1..Len(answers) :
        answers[i] /= "ok" =>
            /\ outcome = Raised(answers[i])
            /\ outcome.record = <<>>
            /\ Len(calls) = i
            /\ inflight = {}
            /\ pc = Done

C2_Witness ==
    /\ Len(answers) = 4
    /\ answers[4] = "HTTPError"
    /\ outcome.kind = "raised"

\* C3 as claimed: a successful run issues exactly nine provider calls.
C3_NineCalls == outcome.kind = "returned" => Len(calls) = 9

\* C3 as amended: a successful run issues exactly ten provider calls, one
\* for each of the ten model-generated sections, each requested once.
C3_TenCallsOncePerSection ==
    outcome.kind = "returned" =>
        /\ Len(calls) = 10
        /\ \A k \in 1..Len(CallOrder) :
              Cardinality({i \in 1..Len(calls) :
                              calls[i].user = PromptOf(CallOrder[k])}) = 1

C3_Witness == outcome.kind = "returned" /\ Len(answers) = 10

\* C4: calls are issued one at a time in the fixed order: call i is the
\* prompt of the i-th section, every earlier call has been answered
\* successfully, and at most the latest call is in flight.
C4_OneAtATimeInOrder ==
    /\ Cardinality(inflight) <= 1
    /\ inflight \subseteq {Len(calls)}
    /\ Len(calls) <= Len(CallOrder)
    /\ \A i \in 1..Len(calls) :
          /\ calls[i].user = PromptOf(CallOrder[i])
          /\ i < Len(calls) => (i <= Len(answers) /\ answers[i] = "ok")

C4_Witness == Len(calls) = 10 /\ inflight = {10}

\* C5: every request carries temperature 0.7 and the one system
\* instruction, whichever provider was selected.
C5_FixedTemperatureAndSystem ==
    \A i \in 1..Len(calls) :
        /\ calls[i].temperature = "0.7"
        /\ calls[i].system = SystemInstruction
        /\ calls[i].system = calls[1].system
        /\ calls[i].variant = ai.provider

C5_Witness ==
    /\ Len(calls) = 10
    /\ calls[10].variant = "claude"
    /\ calls[1].temperature = "0.7"

C7_KeyOrder ==
    outcome.kind = "returned" =>
        /\ Len(outcome.record) = 17
        /\ \A i \in 1..12 : outcome.record[i][1] = FixedSectionOrder[i]
        /\ {outcome.record[i][1] : i \in 13..17} = MetadataKeySet

C7_Witness ==
    /\ outcome.kind = "returned"
    /\ Lookup(outcome.record, "page_type") = "completion B"
    /\ Lookup(outcome.record, "h1") = "completion A"

\* C8: a returned record echoes topic, primary keyword, the profile's
\* client_name and site, and the secondary keywords in their given order
\* with ', ' between neighbours.
C8_EchoesInputs ==
    outcome.kind = "returned" =>
        LET r == outcome.record
            kws == args.secondary_kws
            joined == Lookup(r, "secondary_kws")
        IN  /\ Lookup(r, "topic") = args.topic
            /\ Lookup(r, "primary_kw") = args.primary_kw
            /\ Lookup(r, "client_name") = args.client_data["client_name"]
            /\ Lookup(r, "site") = args.client_data["site"]
            /\ Len(joined) = (IF Len(kws) = 0 THEN 0 ELSE 2 * Len(kws) - 1)
            /\ \A i \in 1..Len(kws) : joined[2 * i - 1] = kws[i]
            /\ \A i \in 1..Len(kws) - 1 : joined[2 * i] = ", "

C8_Witness ==
    /\ outcome.kind = "returned"
    /\ args.topic = "Widgets"
    /\ args.secondary_kws = <<"tool", "gadget">>
    /\ Lookup(outcome.record, "secondary_kws") = <<"tool", ", ", "gadget">>

\* Whether the configuration holds a non-empty credential for name p.
CredentialConfigured(p) ==
    /\ p \in {"openai", "claude", "grok", "perplexity", "mistral"}
    /\ LET k == ApiKeyName(p)
       IN  \/ TruthyStr(environ[k])
           \/ /\ STREAMLIT_AVAILABLE
              /\ secrets.found
              /\ k \in DOMAIN secrets.data
              /\ TruthyStr(secrets.data[k])

\* C9: construction for a provider name without a configured credential
\* (absent, empty, or a name outside the five) ends in the configuration
\* error, and generate_brief has neither been entered nor sent a request.
C9_FailFastAtConstruction ==
    ai.status /= "unconstructed" =>
        LET name == IF TruthyStr(ai.requested) THEN ai.requested
                    ELSE ai.provider
        IN  ~CredentialConfigured(name) =>
                /\ ai.status = "ValueError"
                /\ pc = 0
                /\ calls = <<>>
                /\ brief_sections = <<>>
                /\ outcome = NoOutcome

C9_Witness ==
    /\ ai.status = "ValueError"
    /\ ai.requested = "openai"
    /\ environ["OPENAI_API_KEY"] = ""

\* C10: list_available_providers returns the configured providers among
\* openai, claude, grok, perplexity, mistral, in that order, each once,
\* and sends no request.
C10_ListsConfiguredProviders ==
    listed.called =>
        /\ listed.providers =
              SelectSeq(<<"openai", "claude", "grok", "perplexity", "mistral">>,
                        CredentialConfigured)
        /\ calls = <<>>
        /\ inflight = {}

C10_Witness ==
    /\ listed.called
    /\ listed.providers = <<"claude", "grok", "mistral">>
    /\ environ["MISTRAL_API_KEY"] = None

\* The non-empty value configured for key, in the environment or else in
\* the secrets file; None where neither holds one.
ConfiguredValue(key) ==
    IF TruthyStr(environ[key]) THEN environ[key]
    ELSE IF /\ STREAMLIT_AVAILABLE
            /\ secrets.found
            /\ key \in DOMAIN secrets.data
            /\ TruthyStr(secrets.data[key])
         THEN secrets.data[key]
         ELSE None

\* C11: a constructed or rejected AIProvider holds the caller's override
\* when one was given, otherwise the configured DEFAULT_AI_PROVIDER,
\* otherwise openai; and construction succeeds whenever that provider's
\* own credential is configured, whatever the other credentials are.
C11_ResolvesOverrideDefaultOpenai ==
    ai.status /= "unconstructed" =>
        LET expected ==
                IF TruthyStr(ai.requested) THEN ai.requested
                ELSE IF TruthyStr(ConfiguredValue("DEFAULT_AI_PROVIDER"))
                     THEN ConfiguredValue("DEFAULT_AI_PROVIDER")
                     ELSE "openai"
        IN  /\ ai.provider = expected
            /\ CredentialConfigured(expected) => ai.status = "constructed"

(***************************************************************************)
(* Properties of the profile stores.                                       *)
(***************************************************************************)
\* The members of a list.
SeqRange(s) == {s[i] : i \in 1..Len(s)}

\* What a successful create(name, data) must leave for get to return, given
\* the default structure of the store: every field of data but client_name
\* as supplied, every other default field at its default, client_name the
\* name.
CreatedAsSupplied(got, default, client_name, data) ==
    /\ got.found
    /\ DOMAIN default \cup DOMAIN data \subseteq DOMAIN got.profile
    /\ \A k \in DOMAIN data \ {"client_name"} : got.profile[k] = data[k]
    /\ \A k \in DOMAIN default \ (DOMAIN data \cup {"client_name"}) :
          got.profile[k] = default[k]
    /\ got.profile["client_name"] = Val(client_name)

\* C12: after create(name, data) succeeded for a new name, get(name)
\* returns a profile holding every supplied top-level field as supplied,
\* every unsupplied default field at the store's default, and client_name
\* equal to name; in the file store and in the database store alike.
C12_CreateThenGet ==
    last.op = "create" =>
        /\ last.file_ret = "True" =>
              CreatedAsSupplied(FileGetClient(files, last.name),
                                FileDefaultStructure(last.name),
                                last.name, last.data)
        /\ (turn = "file" /\ last.supa_ret = "True") =>
              CreatedAsSupplied(SupaGetClient(rows, last.name, TRUE),
                                SupaDefaultStructure(last.name),
                                last.name, last.data)

C12_Witness ==
    /\ last.op = "create"
    /\ turn = "file"
    /\ last.name = NameSpaced
    /\ last.data = DataSite
    /\ last.file_ret = "True"
    /\ last.supa_ret = "True"
    /\ rows[NameSpaced]["site"] = Val("acme.example")
    /\ files[NameSafe]["information"] = Val(<<>>)

\* A step in which the file store runs a new operation op.
FileStep(op) == turn = "file" /\ turn' = "supabase" /\ last'.op = op

\* A step in which the database store runs the pending operation op.
SupaStep(op) == turn = "supabase" /\ turn' = "file" /\ last.op = op

\* C13: create(name, data) for a name under which a profile already exists
\* returns False and leaves the store as it was, in both stores.
C13_DuplicateCreateRejected ==
    [][/\ (FileStep("create") /\ FileGetClient(files, last'.name).found) =>
              (last'.file_ret = "False" /\ files' = files)
       /\ (SupaStep("create") /\ SupaGetClient(rows, last.name, TRUE).found) =>
              (last'.supa_ret = "False" /\ rows' = rows)]_vars

C13_Witness ==
    /\ last.op = "create"
    /\ turn = "file"
    /\ nops = 2
    /\ ~outage
    /\ last.name = NameB
    /\ last.data = DataSite
    /\ last.file_ret = "False"
    /\ last.supa_ret = "False"
    /\ files[GetClientFile(NameB)]["site"] = Val("")
    /\ rows[NameB]["site"] = Val("")

\* C14: a delete(name) that returns True leaves get(name) absent and
\* list() without the profile; a delete(name) for a name with no profile
\* returns False and changes nothing; in both stores.
C14_DeleteRemoves ==
    [][/\ FileStep("delete") =>
             LET name == last'.name
             IN  /\ last'.file_ret = "True" =>
                       /\ ~FileGetClient(files', name).found
                       /\ name \notin SeqRange(FileListClients(files'))
                       /\ GetClientFile(name) \notin SeqRange(FileListClients(files'))
                       /\ FileGetClient(files, name).found
                 /\ ~FileGetClient(files, name).found =>
                       (last'.file_ret = "False" /\ files' = files)
       /\ SupaStep("delete") =>
             LET name == last.name
             IN  /\ last'.supa_ret = "True" =>
                       /\ ~SupaGetClient(rows', name, TRUE).found
                       /\ name \notin SeqRange(SupaListClients(rows', TRUE))
                       /\ SupaGetClient(rows, name, TRUE).found
                 /\ ~SupaGetClient(rows, name, TRUE).found =>
                       (last'.supa_ret = "False" /\ rows' = rows)]_vars

C14_Witness ==
    /\ last.op = "delete"
    /\ turn = "file"
    /\ nops = 3
    /\ last.name = NameB
    /\ last.file_ret = "True"
    /\ last.supa_ret = "True"
    /\ DOMAIN files = {NameSafe}
    /\ DOMAIN rows = {NameSpaced}

\* Every dict value of updates meets a stored dict: the fields it names
\* are nested mapping fields of the profile.
NestedFieldsAreDicts(pre, updates) ==
    \A k \in DOMAIN updates :
        (IsDict(updates[k]) /\ k \in DOMAIN pre) => IsDict(pre[k])

\* post is pre after update(name, updates), the fields in kept excepted:
\* a dict value changes only the sub-keys it names, any other value
\* replaces the field, and the fields updates does not name are as before.
UpdatedAsGiven(pre, post, updates, kept) ==
    /\ DOMAIN pre \cup (DOMAIN updates \ kept) \subseteq DOMAIN post
    /\ \A k \in DOMAIN updates \ kept :
          IF IsDict(updates[k]) /\ k \in DOMAIN pre
          THEN /\ IsDict(post[k])
               /\ DOMAIN post[k].val = DOMAIN pre[k].val \cup DOMAIN updates[k].val
               /\ \A sub \in DOMAIN post[k].val :
                     post[k].val[sub] = IF sub \in DOMAIN updates[k].val
                                        THEN updates[k].val[sub]
                                        ELSE pre[k].val[sub]
          ELSE post[k] = updates[k]
    /\ \A k \in DOMAIN pre \ (DOMAIN updates \ kept) : post[k] = pre[k]

\* The key of the row update(name, updates) leaves behind.
RowKeyAfter(client_name, updates) ==
    IF "client_name" \in DOMAIN updates THEN updates["client_name"].val
    ELSE client_name

\* An update step of either store obeys UpdatedAsGiven, the database store
\* with the fields in kept excepted.
UpdateStepAsGiven(kept) ==
    /\ (/\ FileStep("update")
        /\ FileGetClient(files, last'.name).found
        /\ NestedFieldsAreDicts(FileGetClient(files, last'.name).profile,
                                last'.data)) =>
            /\ last'.file_ret = "True"
            /\ UpdatedAsGiven(FileGetClient(files, last'.name).profile,
                              FileGetClient(files', last'.name).profile,
                              last'.data, {})
    /\ (/\ SupaStep("update")
        /\ last'.supa_ret = "True"
        /\ NestedFieldsAreDicts(rows[last.name], last.data)) =>
            UpdatedAsGiven(rows[last.name],
                           rows'[RowKeyAfter(last.name, last.data)],
                           last.data, kept)

\* C15 as claimed: update(name, partial) with a mapping for a nested
\* mapping field changes only the sub-keys given, a non-mapping value
\* replaces the stored field, and unnamed fields are unchanged; for every
\* field and in both stores.
C15_MergeEveryField == [][UpdateStepAsGiven({})]_vars

\* C15 as amended: the same, except that the database store keeps the
\* stored id and created_at of the row whatever partial holds for them.
C15_MergeExceptIdCreatedAt == [][UpdateStepAsGiven({"id", "created_at"})]_vars

C15_Witness ==
    /\ last.op = "update"
    /\ turn = "file"
    /\ last.name = NameSafe
    /\ last.data = PartialBrand
    /\ last.file_ret = "True"
    /\ last.supa_ret = "True"
    /\ files[NameSafe]["restrictions"] =
          Dict([legal |-> <<"no medical claims">>, brand |-> <<"never say cheap">>])
    /\ rows[NameSafe]["restrictions"] =
          Dict([legal |-> <<"no medical claims">>, brand |-> <<"never say cheap">>])
    /\ rows[NameSafe]["site"] = Val("acme.example")

\* The claim's normal form of a name: spaces replaced with underscores,
\* then lower-cased.
Normalised(name) ==
    [i \in 1..Len(name) |->
        IF name[i] = " " THEN "_"
        ELSE IF name[i] = "A" THEN "a"
        ELSE IF name[i] = "B" THEN "b"
        ELSE name[i]]

\* The names that address the same profile as name does.
Aliases(name) == {n \in ClientNames : Normalised(n) = Normalised(name)}

\* C16: in the file store, names with the same normal form address one
\* profile: a create under a name whose alias holds a profile is rejected,
\* and what a successful create, update or delete under one name did is
\* what get finds under each of its aliases.
C16_AliasesShareOneProfile ==
    [][\A op \in {"create", "get", "update", "delete", "list"} :
         FileStep(op) =>
           LET name == last'.name
           IN  /\ \A n1, n2 \in ClientNames :
                     Normalised(n1) = Normalised(n2) =>
                         FileGetClient(files', n1) = FileGetClient(files', n2)
               /\ Cardinality(DOMAIN files') =
                     Cardinality({Normalised(n) : n \in
                                    {m \in ClientNames : FileGetClient(files', m).found}})
               /\ (op = "create" /\ \E n \in Aliases(name) :
                                        FileGetClient(files, n).found) =>
                      (last'.file_ret = "False" /\ files' = files)
               /\ (op = "create" /\ last'.file_ret = "True") =>
                      \A n \in Aliases(name) :
                          /\ FileGetClient(files', n).found
                          /\ FileGetClient(files', n).profile["client_name"] = Val(name)
               /\ (op = "get") =>
                      \A n \in Aliases(name) :
                          last'.file_got = FileGetClient(files, n)
               /\ (op = "update" /\ \E n \in Aliases(name) :
                                        FileGetClient(files, n).found) =>
                      /\ last'.file_ret \in {"True", "AttributeError"}
                      /\ last'.file_ret = "True" =>
                            \A n \in Aliases(name) :
                                UpdatedAsGiven(FileGetClient(files, n).profile,
                                               FileGetClient(files', n).profile,
                                               last'.data, {})
               /\ (op = "delete" /\ \E n \in Aliases(name) :
                                        FileGetClient(files, n).found) =>
                      /\ last'.file_ret = "True"
                      /\ \A n \in Aliases(name) : ~FileGetClient(files', n).found]_vars

C16_Witness ==
    /\ last.op = "update"
    /\ last.name = NameSafe
    /\ last.data = PartialSiteTone
    /\ last.file_ret = "True"
    /\ given.file = [f \in {NameSafe} |-> NameSpaced]
    /\ FileGetClient(files, NameSpaced).profile["site"] = Val("new.example")
    /\ FileGetClient(files, NameSpaced).profile["client_name"] = Val(NameSpaced)

\* A list in strictly ascending order, hence without duplicates.
Ascending(s) == \A i \in 1..Len(s) - 1 : StrLess(s[i], s[i + 1])

\* C17: list() returns, in ascending order and without duplicates, exactly
\* the names that were given to create for the profiles that exist now, in
\* the file store and (when the service answers) in the database store.
C17_ListsNamesAsCreated ==
    last.op = "list" =>
        /\ Ascending(last.file_list)
        /\ SeqRange(last.file_list) = {given.file[f] : f \in DOMAIN files}
        /\ (turn = "file" /\ last.up) =>
              /\ Ascending(last.supa_list)
              /\ SeqRange(last.supa_list) = {given.supa[k] : k \in DOMAIN rows}

\* The caller-supplied fields two retrieved profiles are compared on.
SameSuppliedFields(p, q) ==
    /\ \A k \in {"client_name", "site", "restrictions"} : p[k] = q[k]
    /\ IsDict(p["requirements"]) = IsDict(q["requirements"])
    /\ p["requirements"].val["tone"] = q["requirements"].val["tone"]

\* C18: as long as the database has answered every request, an operation
\* applied to both stores reports the same result, get reports the same
\* presence with the same caller-supplied fields, and every name is
\* present in both stores or in neither.
C18_StoresAgree ==
    (turn = "file" /\ ~outage /\ last.op /= "none") =>
        /\ last.file_ret = last.supa_ret
        /\ last.file_got.found = last.supa_got.found
        /\ last.file_got.found =>
              SameSuppliedFields(last.file_got.profile, last.supa_got.profile)
        /\ \A n \in ClientNames :
              FileGetClient(files, n).found = SupaGetClient(rows, n, TRUE).found

\* C19: the record update_client sends to the database holds neither id
\* nor created_at, whatever the stored row and the partial hold.
C19_PayloadWithoutIdCreatedAt ==
    last.payload.written =>
        /\ "id" \notin DOMAIN last.payload.record
        /\ "created_at" \notin DOMAIN last.payload.record
        /\ DOMAIN last.data \ {"id", "created_at"} \subseteq DOMAIN last.payload.record

C19_Witness ==
    /\ last.op = "update"
    /\ turn = "file"
    /\ last.data = PartialId
    /\ last.payload.written
    /\ last.supa_ret = "True"
    /\ rows[last.name]["id"] = Val("generated")
    /\ "site" \in DOMAIN last.payload.record

(***************************************************************************)
(* The document formatter (document_formatter.py).                         *)
(*                                                                         *)
(* Text is a sequence of tokens; a line break is the token "\n" and the    *)
(* tokens " " and "\t" are whitespace.  A paragraph is the sequence of     *)
(* its runs, a run the text it was added with.  The document body is the   *)
(* sequence of its blocks: tables and the empty paragraphs between them.   *)
(* Fonts, sizes and colours are left out.                                  *)
(***************************************************************************)
Whitespace == {" ", "\t", "\n"}

\* content.split('\n'): the lines between the line breaks, at least one.
RECURSIVE Split(_)
Split(content) ==
    IF \A i \in 1..Len(content) : content[i] /= "\n" THEN <<content>>
    ELSE LET at == CHOOSE i \in 1..Len(content) :
                       /\ content[i] = "\n"
                       /\ \A j \in 1..(i - 1) : content[j] /= "\n"
         IN  <<SubSeq(content, 1, at - 1)>>
                 \o Split(SubSeq(content, at + 1, Len(content)))

\* line.strip() is truthy: the line holds something besides whitespace.
StripTruthy(line) == \E i \in 1..Len(line) : line[i] \notin Whitespace

\* The runs _add_section adds to the paragraph of one line: the line as it
\* is when strip() leaves something, none otherwise.
LineRuns_stripped(line) ==
    IF StripTruthy(line)
    THEN <<SelectSeq(line, LAMBDA t : t \notin Whitespace)>>
    ELSE <<>>

LineRuns(line) == IF StripTruthy(line) THEN <<line>> ELSE <<>>

\* The paragraphs of a content cell: cell.text = '' leaves one paragraph
\* with one empty run, every later line gets a paragraph of its own.
ContentParagraphs(content) ==
    LET content_lines == Split(content)
    IN  [i \in 1..Len(content_lines) |->
            (IF i = 1 THEN <<<<>>>> ELSE <<>>) \o LineRuns(content_lines[i])]

Block(kind, title, paragraphs, info_rows) ==
    [kind |-> kind, title |-> title, paragraphs |-> paragraphs,
     rows |-> info_rows]

Spacing == Block("paragraph", <<>>, <<>>, <<>>)

\* DocumentFormatter._add_section: a table of a title cell and a content
\* cell, then an empty paragraph.
AddSection(section_title, content) ==
    <<Block("section", <<section_title>>, ContentParagraphs(content), <<>>),
      Spacing>>

\* DocumentFormatter._add_header: the title table, the info table of four
\* rows, an empty paragraph after each.
AddHeader(data, date) ==
    <<Block("title",
            DictGet(data, "client_name", <<>>) \o <<" - ">>
                \o DictGet(data, "topic", <<>>) \o <<" - Content Brief">>,
            <<>>, <<>>),
      Spacing,
      Block("info", <<>>, <<>>,
            <<<<"Site:", DictGet(data, "site", <<>>)>>,
              <<"Primary Keyword:", DictGet(data, "primary_kw", <<>>)>>,
              <<"Secondary Keywords:", DictGet(data, "secondary_kws", <<>>)>>,
              <<"Date Generated:", <<date>>>>>>),
      Spacing>>

\* The section titles and the record keys they render, in call order
\* (document_formatter.py:46-58).
SectionCalls ==
    <<<<"1. Page Type Identification", "page_type">>,
      <<"2. Page Title", "page_title">>,
      <<"3. Meta Description", "meta_description">>,
      <<"4. Target URL", "target_url">>,
      <<"5. H1 Heading", "h1">>,
      <<"6. Summary Bullets", "summary_bullets">>,
      <<"7. Internal Linking", "internal_links">>,
      <<"8. Audience Definition", "audience">>,
      <<"9. CTA / Path", "cta">>,
      <<"10. Restrictions", "restrictions">>,
      <<"11. Requirements", "requirements">>,
      <<"12. Suggested Headings & Key Points (+ FAQ)", "headings_faq">>>>

\* The blocks of the first n section calls.
RECURSIVE AddSections(_, _)
AddSections(data, n) ==
    IF n = 0 THEN <<>>
    ELSE AddSections(data, n - 1)
            \o AddSection(SectionCalls[n][1],
                          DictGet(data, SectionCalls[n][2], <<>>))

\* Limit of the topic part of the filename.
TopicLimit == 30

\* str.replace(" ", "_") on a sequence of characters.
ReplaceSpaces(s) == [i \in 1..Len(s) |-> IF s[i] = " " THEN "_" ELSE s[i]]

\* filename = f"{client_name}_{topic}_{timestamp}.docx"
FileName(data, stamp) ==
    LET client_name == ReplaceSpaces(DictGet(data, "client_name",
                                             <<"C", "l", "i", "e", "n", "t">>))
        replaced == ReplaceSpaces(DictGet(data, "topic",
                                          <<"T", "o", "p", "i", "c">>))
        topic == SubSeq(replaced, 1,
                        IF Len(replaced) < TopicLimit THEN Len(replaced)
                        ELSE TopicLimit)
    IN  client_name \o <<"_">> \o topic \o <<"_", stamp, ".docx">>

\* os.path.join(output_dir, filename) for a filename that is not absolute.
FilePath(data, output_dir, stamp) ==
    <<output_dir, "/">> \o FileName(data, stamp)

\* doc.save(filepath) opens the file for writing.  A separator inside the
\* filename makes its first part a directory below output_dir, which
\* makedirs did not create: the open raises FileNotFoundError.
SaveRaises(filename) == \E i \in 1..Len(filename) : filename[i] = "/"

\* What create_brief_document leaves behind: header, the twelve sections,
\* then the directory is made and the document saved under the filename;
\* filepath is what the call returned, empty when it raised instead.
SavedDocument(d, data, output_dir, date, stamp) ==
    LET body == AddHeader(data, date) \o AddSections(data, Len(SectionCalls))
        filepath == FilePath(data, output_dir, stamp)
    IN  IF SaveRaises(FileName(data, stamp))
        THEN [status |-> "FileNotFoundError", body |-> body,
              filepath |-> <<>>, dirs |-> d.dirs \cup {output_dir},
              saved |-> d.saved]
        ELSE [status |-> "saved", body |-> body, filepath |-> filepath,
              dirs |-> d.dirs \cup {output_dir},
              saved |-> d.saved \cup {filepath}]

\* DocumentFormatter.create_brief_document on brief_data; the header reads
\* the clock before the filename does.
CreateBriefDocument(output_dir, header_now, save_now) ==
    /\ doc.status = "none"
    /\ header_now.at <= save_now.at
    /\ doc' = SavedDocument(doc, brief_data, output_dir, header_now.date,
                            save_now.stamp)
    /\ UNCHANGED <<brief_data, briefVars, storeVars, frontVars>>

(***************************************************************************)
(* Inputs of the document formatter.                                       *)
(***************************************************************************)
\* Section texts of at most MaxContentLen tokens: a word, a space, a break.
Contents ==
    UNION {[1..n -> {"x", " ", "\n"}] : n \in 0..MaxContentLen}

TopicShort == <<"S", "E", "O", " ", "t", "i", "p", "s">>
\* A topic two characters longer than the filename keeps, with spaces.
TopicLong == [i \in 1..(TopicLimit + 2) |-> IF i % 5 = 0 THEN " " ELSE "t"]

\* A topic that holds a path separator.
TopicSlash == <<"2", "4", "/", "7", " ", "h", "e", "l", "p">>

\* A brief record as generate_brief returns it, every text a token list.
BaseRecord ==
    [page_type |-> <<"x">>, page_title |-> <<"x">>,
     meta_description |-> <<"x">>, target_url |-> <<"x">>, h1 |-> <<"x">>,
     summary_bullets |-> <<"x">>, internal_links |-> <<"x">>,
     audience |-> <<"x">>, cta |-> <<"x">>, restrictions |-> <<"x">>,
     requirements |-> <<"x">>, headings_faq |-> <<"x">>,
     topic |-> TopicShort, primary_kw |-> <<"widget">>,
     secondary_kws |-> <<"tool", ", ", "gadget">>,
     client_name |-> <<"A", "c", "m", "e", " ", "C", "o">>,
     site |-> <<"acme.example">>]

\* The base record with one section text varied, with one key missing, or
\* with another topic.
DocRecords ==
    {[BaseRecord EXCEPT ![SectionCalls[n][2]] = c] :
        n \in 1..Len(SectionCalls), c \in Contents}
    \cup {DictPop(BaseRecord, {k}) : k \in DOMAIN BaseRecord}
    \cup {[BaseRecord EXCEPT !["topic"] = t] : t \in {TopicLong, TopicSlash}}

OutputDirs == {"output_briefs", "exports"}

\* Two readings of datetime.now(), either side of midnight.
Instants ==
    {[at |-> 1, date |-> "05 November 2026", stamp |-> "20261105_235959"],
     [at |-> 2, date |-> "06 November 2026", stamp |-> "20261106_000000"]}

\* The document formatter on every record of the bounds.
InitDoc ==
    /\ environ = EnvNothing
    /\ STREAMLIT_AVAILABLE = FALSE
    /\ secrets = NoSecrets
    /\ args = NoArgs
    /\ brief_data \in DocRecords
    /\ InitRest

NextDoc ==
    \E output_dir \in OutputDirs, header_now \in Instants, save_now \in Instants :
        CreateBriefDocument(output_dir, header_now, save_now)

SpecDoc == InitDoc /\ [][NextDoc]_vars

(***************************************************************************)
(* Properties of the document formatter.                                   *)
(***************************************************************************)
RECURSIVE Concat(_)
Concat(seqs) == IF seqs = <<>> THEN <<>> ELSE Head(seqs) \o Concat(Tail(seqs))

\* The text of a section: the text of its paragraphs, a line break between
\* neighbours.
SectionText(section) ==
    Concat([i \in 1..Len(section.paragraphs) |->
               (IF i > 1 THEN <<"\n">> ELSE <<>>)
                   \o Concat(section.paragraphs[i])])

\* Positions i and j of value lie on one line.
OnOneLine(value, i, j) ==
    \A k \in 1..Len(value) :
        ((i <= k /\ k <= j) \/ (j <= k /\ k <= i)) => value[k] /= "\n"

\* The token at position i belongs to a line of whitespace only.
OnBlankLine(value, i) ==
    \A j \in 1..Len(value) : OnOneLine(value, i, j) => value[j] \in Whitespace

\* value from position i on, the tokens of whitespace-only lines left out.
RECURSIVE BlankedFrom(_, _)
BlankedFrom(value, i) ==
    IF i > Len(value) THEN <<>>
    ELSE (IF value[i] = "\n" \/ ~OnBlankLine(value, i)
          THEN <<value[i]>> ELSE <<>>) \o BlankedFrom(value, i + 1)

\* The section blocks of a document body, in order.
SectionsOf(body) == SelectSeq(body, LAMBDA b : b.kind = "section")

RECURSIVE Strip(_)
Strip(s) ==
    IF Len(s) = 0 THEN s
    ELSE IF Head(s) \in Whitespace THEN Strip(Tail(s))
    ELSE IF s[Len(s)] \in Whitespace THEN Strip(SubSeq(s, 1, Len(s) - 1))
    ELSE s

\* s.split(','): the pieces between the commas, at least one.
RECURSIVE SplitCommas(_)
SplitCommas(s) ==
    IF \A i \in 1..Len(s) : s[i] /= "," THEN <<s>>
    ELSE LET at == CHOOSE i \in 1..Len(s) :
                       /\ s[i] = ","
                       /\ \A j \in 1..(i - 1) : s[j] /= ","
         IN  <<SubSeq(s, 1, at - 1)>> \o SplitCommas(SubSeq(s, at + 1, Len(s)))

\* [kw.strip() for kw in secondary_kws_input.split(',') if kw.strip()]
ParseKeywords(secondary_kws_input) ==
    LET pieces == SplitCommas(secondary_kws_input)
        stripped == [i \in 1..Len(pieces) |-> Strip(pieces[i])]
    IN  SelectSeq(stripped, LAMBDA kw : Len(kw) > 0)

\* A stored profile as the dict the store hands to its caller.
Untag(profile) == [k \in DOMAIN profile |-> profile[k].val]

\* A handler ends before generate_brief is entered; msg is what it shows.
Report(msg) ==
    /\ front' = [front EXCEPT !.running = "none", !.provider = None,
                              !.report = msg]
    /\ UNCHANGED <<ai, genVars>>

\* BriefGenerator(provider) succeeded and generate_brief is entered.
StartGeneration(who, provider, generator, client_data, topic, primary_kw, secondary_kws) ==
    /\ ai' = generator
    /\ args' = [client_data |-> client_data, topic |-> topic,
                primary_kw |-> primary_kw, secondary_kws |-> secondary_kws]
    /\ brief_sections' = <<>>
    /\ pc' = 1
    /\ front' = [front EXCEPT !.running = who, !.provider = provider,
                              !.report = "none"]
    /\ UNCHANGED <<calls, answers, inflight, outcome>>

\* The handler ends after generate_brief: its locals and the generator go.
EndGeneration(msg) ==
    /\ front' = [front EXCEPT !.running = "none", !.provider = None,
                              !.report = msg]
    /\ ai' = Unconstructed
    /\ args' = NoArgs
    /\ brief_sections' = <<>>
    /\ calls' = <<>>
    /\ answers' = <<>>
    /\ inflight' = {}
    /\ outcome' = NoOutcome
    /\ pc' = 0

(***************************************************************************)
(* The CLI (main.py).                                                      *)
(***************************************************************************)
\* Lines 60-77: the provider at the index typed, the first one when the
\* input is no number or out of range.
CliSelectedProvider(available_providers, choice) ==
    IF choice.number /\ choice.n - 1 >= 0
                     /\ choice.n - 1 < Len(available_providers)
    THEN available_providers[choice.n]
    ELSE available_providers[1]

\* create_brief_workflow up to the call of generate_brief (lines 54-147):
\* provider, generator, client, then the three inputs, each checked after
\* strip.
CliCreateBrief(provider_choice, client_choice, topic_input, primary_input, secondary_kws_input) ==
    /\ front.app = "cli"
    /\ front.running = "none"
    /\ Len(ListAvailable) > 0
    /\ LET selected_provider == CliSelectedProvider(ListAvailable,
                                                    provider_choice)
           generator == NewAIProvider(selected_provider)
           clients == FileListClients(files)
           client_idx == client_choice.n - 1
           got == FileGetClient(files, clients[client_idx + 1])
           client_data == Untag(got.profile)
           topic == Strip(topic_input)
           primary_kw == Strip(primary_input)
           secondary_kws == ParseKeywords(Strip(secondary_kws_input))
       IN  IF generator.status /= "constructed"
           THEN Report("Error initializing AI provider")
           ELSE IF Len(clients) = 0
           THEN Report("No clients found")
           ELSE IF ~client_choice.number
           THEN Report("Invalid input")
           ELSE IF client_idx < 0 \/ client_idx >= Len(clients)
           THEN Report("Invalid selection")
           ELSE IF ~got.found
           THEN Report("none")
           ELSE IF ~({"client_name", "site"} \subseteq DOMAIN client_data)
           THEN Report("KeyError")
           ELSE IF Len(topic) = 0
           THEN Report("Topic is required")
           ELSE IF Len(primary_kw) = 0
           THEN Report("Primary keyword is required")
           ELSE IF Len(secondary_kws) = 0
           THEN Report("At least one secondary keyword is required")
           ELSE StartGeneration("cli", selected_provider, generator,
                                client_data, topic, primary_kw, secondary_kws)
    /\ UNCHANGED <<cfgVars, listed, fmt_log, storeVars, docVars, session>>

\* The ordered dict generate_brief returned, as the dict it is.
AsDict(d) == [k \in KeySet(d) |-> Lookup(d, k)]

\* Lines 141-161: the brief goes to create_brief_document with the default
\* directory; any exception of either call is printed.
CliFinish(header_now, save_now) ==
    /\ front.running = "cli"
    /\ pc = Done
    /\ header_now.at <= save_now.at
    /\ IF outcome.kind = "returned"
       THEN /\ brief_data' = AsDict(outcome.record)
            /\ doc' = SavedDocument(doc, AsDict(outcome.record),
                                    "output_briefs", header_now.date,
                                    save_now.stamp)
            /\ EndGeneration(IF doc'.status = "saved"
                             THEN "Brief created successfully"
                             ELSE "Error generating brief")
       ELSE /\ UNCHANGED docVars
            /\ EndGeneration("Error generating brief")
    /\ UNCHANGED <<cfgVars, listed, fmt_log, storeVars, session>>

(***************************************************************************)
(* The web application (app.py).                                           *)
(***************************************************************************)
\* A handler that ends in st.rerun() leaves no message on screen.
\* Load Client (lines 78-98): the selected profile becomes the session's.
WebLoadClient(selected_client, up) ==
    /\ front.app = "web"
    /\ front.running = "none"
    /\ selected_client \in SeqRange(SupaListClients(rows, TRUE))
    /\ LET got == SupaGetClient(rows, selected_client, up)
       IN  IF got.found
           THEN /\ session' = [session EXCEPT
                                  !.client_data = SetTo(Untag(got.profile))]
                /\ Report("none")
           ELSE /\ session' = session
                /\ Report("Failed to load client")
    /\ outage' = (outage \/ ~up)
    /\ UNCHANGED <<cfgVars, listed, fmt_log, files, rows, last, turn, nops,
                   given, docVars>>

\* Delete (lines 100-109): the session's profile goes with its row.
WebDeleteClient(selected_client, up) ==
    /\ front.app = "web"
    /\ front.running = "none"
    /\ selected_client \in SeqRange(SupaListClients(rows, TRUE))
    /\ LET r == SupaDeleteClient(rows, selected_client, up)
       IN  /\ rows' = r.rows
           /\ given' = [given EXCEPT
                           !.supa = DictPop(@, DOMAIN @ \ DOMAIN r.rows)]
           /\ IF r.ret = "True"
              THEN /\ session' =
                        IF /\ session.client_data.set
                           /\ "client_name" \in DOMAIN session.client_data.value
                           /\ session.client_data.value["client_name"]
                                  = selected_client
                        THEN [session EXCEPT !.client_data = Unset]
                        ELSE session
                   /\ Report("none")
              ELSE /\ session' = session
                   /\ Report("Failed to delete client")
    /\ outage' = (outage \/ ~up)
    /\ UNCHANGED <<cfgVars, listed, fmt_log, files, last, turn, nops, docVars>>

\* if topic and primary_kw and secondary_kws_input (line 243)
WebFormFilled(topic, primary_kw, secondary_kws_input) ==
    Len(topic) > 0 /\ Len(primary_kw) > 0 /\ Len(secondary_kws_input) > 0

\* Generate Brief (lines 188-258): the form is shown for a loaded profile
\* and a configured provider; a filled form constructs the generator and
\* enters generate_brief.
WebSubmit(topic, primary_kw, secondary_kws_input, provider) ==
    /\ front.app = "web"
    /\ front.running = "none"
    /\ session.client_data.set
    /\ provider \in SeqRange(ListAvailable)
    /\ IF ~WebFormFilled(topic, primary_kw, secondary_kws_input)
       THEN Report("Please fill in all required fields")
       ELSE LET generator == NewAIProvider(provider)
            IN  IF generator.status /= "constructed"
                THEN Report("Error generating brief")
                ELSE StartGeneration("web", provider, generator,
                                     session.client_data.value, topic,
                                     primary_kw,
                                     ParseKeywords(secondary_kws_input))
    /\ UNCHANGED <<cfgVars, listed, fmt_log, storeVars, docVars, session>>

\* Lines 260-261 with the provider left out.
StoreBrief_briefOnly(s, brief, provider) ==
    [s EXCEPT !.generated_brief = SetTo(brief)]

\* st.session_state.generated_brief = brief_data
\* st.session_state.selected_provider = provider
StoreBrief(s, brief, provider) ==
    [s EXCEPT !.generated_brief = SetTo(brief),
              !.selected_provider = SetTo(provider)]

\* Lines 253-268: the returned brief is stored with its provider; an
\* exception is shown and the session left as it was.
WebFinish ==
    /\ front.running = "web"
    /\ pc = Done
    /\ IF outcome.kind = "returned"
       THEN /\ session' = StoreBrief(session, outcome.record, front.provider)
            /\ EndGeneration("none")
       ELSE /\ session' = session
            /\ EndGeneration("Error generating brief")
    /\ UNCHANGED <<cfgVars, listed, fmt_log, storeVars, docVars>>

\* Generate New Brief (lines 388-390), shown while a brief is displayed.
WebNewBrief ==
    /\ front.app = "web"
    /\ front.running = "none"
    /\ session.generated_brief.set
    /\ session' = [session EXCEPT !.generated_brief = Unset]
    /\ Report("none")
    /\ UNCHANGED <<cfgVars, listed, fmt_log, storeVars, docVars>>

(***************************************************************************)
(* Inputs of the front ends.                                               *)
(***************************************************************************)
\* A form as the user fills it in: a complete one, and the complete one
\* with one field left empty, blank, or holding separators only.
FormBase ==
    [topic |-> <<"W">>, primary_kw |-> <<"w">>,
     secondary_kws_input |-> <<"a", ",", " ", "b">>]

FormInputs ==
    {FormBase}
    \cup {[FormBase EXCEPT !.topic = t] : t \in {<<>>, <<" ">>}}
    \cup {[FormBase EXCEPT !.primary_kw = k] : k \in {<<>>, <<" ">>}}
    \cup {[FormBase EXCEPT !.secondary_kws_input = k] :
             k \in {<<>>, <<",">>, <<" ", "a", ",">>}}

\* A menu number as typed: no number at all, or the number.
MenuChoices ==
    {[number |-> FALSE, n |-> 0]} \cup {[number |-> TRUE, n |-> i] : i \in 0..2}

\* What a provider answers in the front-end specification, as tokens, and
\* how a request fails there.
FrontResponses == {<<"x">>}

FrontErrors == {"HTTPError"}

\* The stores as one create on each leaves them, or the file store empty.
FrontStores ==
    {[files |-> fs, rows |-> SupaCreateClient(<<>>, NameB, DataSite, TRUE).rows,
      given |-> [file |-> [f \in DOMAIN fs |-> NameSpaced],
                 supa |-> [k \in {NameB} |-> NameB]]] :
        fs \in {<<>>, FileCreateClient(<<>>, NameSpaced, DataSite).files}}

\* Either front end is started where claude is configured in the
\* environment and mistral in the secrets file.
InitFront ==
    /\ environ = EnvClaudeDefault
    /\ STREAMLIT_AVAILABLE = TRUE
    /\ secrets = MistralSecrets
    /\ \E st \in FrontStores :
          /\ files = st.files
          /\ rows = st.rows
          /\ given = st.given
    /\ last = NoOp
    /\ turn = "file"
    /\ nops = 0
    /\ outage = FALSE
    /\ ai = Unconstructed
    /\ listed = [called |-> FALSE, providers |-> <<>>]
    /\ pc = 0
    /\ args = NoArgs
    /\ brief_sections = <<>>
    /\ calls = <<>>
    /\ answers = <<>>
    /\ inflight = {}
    /\ outcome = NoOutcome
    /\ fmt_log = <<>>
    /\ brief_data = <<>>
    /\ doc = NoDocument
    /\ session = NoSession
    /\ \E app \in {"cli", "web"} : front = [FrontIdle EXCEPT !.app = app]

NextFront ==
    \/ \E pch \in MenuChoices, cch \in MenuChoices, f \in FormInputs :
          CliCreateBrief(pch, cch, f.topic, f.primary_kw, f.secondary_kws_input)
    \/ \E header_now \in Instants, save_now \in Instants :
          CliFinish(header_now, save_now)
    \/ \E n \in ClientNames, up \in BOOLEAN : WebLoadClient(n, up)
    \/ \E n \in ClientNames, up \in BOOLEAN : WebDeleteClient(n, up)
    \/ \E f \in FormInputs, p \in ProviderSet :
          WebSubmit(f.topic, f.primary_kw, f.secondary_kws_input, p)
    \/ WebFinish
    \/ WebNewBrief
    \/ IssueCall
    \/ \E text \in FrontResponses : CallReturns(text)
    \/ \E err \in FrontErrors : CallFails(err)
    \/ FormatRestrictionsStep
    \/ FormatRequirementsStep
    \/ AddMetadataAndReturn

SpecFront == InitFront /\ [][NextFront]_vars

(***************************************************************************)
(* Properties of the front ends.                                           *)
(***************************************************************************)
\* A request whose topic, primary keyword and secondary-keyword list are
\* all non-empty.
NonEmptyRequest(a) ==
    Len(a.topic) > 0 /\ Len(a.primary_kw) > 0 /\ Len(a.secondary_kws) > 0

\* C21: in both front ends, the CLI workflow and the web brief form,
\* generate_brief is never running on an empty topic, an empty primary
\* keyword or an empty list of secondary keywords.
C21_NoEmptyInputReachesGenerateBrief ==
    front.running /= "none" => NonEmptyRequest(args)

(***************************************************************************)
(* What the prompts carry of the request.                                  *)
(***************************************************************************)
\* part occurs in text as a run of neighbouring tokens.
Embeds(text, part) ==
    \E i \in 0..(Len(text) - Len(part)) :
        SubSeq(text, i + 1, i + Len(part)) = part

\* The sections whose prompt template interpolates the secondary keywords.
KeywordListSections ==
    {"page_type", "meta_description", "internal_links", "headings_faq"}

\* C22 as stated: each prompt sent to the provider embeds the primary
\* keyword, the topic and the secondary keywords joined with ", ".
C22_EveryPromptEmbedsAllThree ==
    \A i \in 1..Len(calls) :
        /\ Embeds(calls[i].user, <<args.primary_kw>>)
        /\ Embeds(calls[i].user, <<args.topic>>)
        /\ Embeds(calls[i].user, Join(", ", args.secondary_kws))

\* C22 as amended: each prompt sent to the provider embeds the primary
\* keyword; each one except the internal-links prompt embeds the topic; the
\* page-type, meta-description, internal-links and headings/FAQ prompts
\* embed the secondary keywords joined with ", ".
C22_PromptsEmbedRequest ==
    \A i \in 1..Len(calls) :
        /\ i <= Len(CallOrder)
        /\ Embeds(calls[i].user, <<args.primary_kw>>)
        /\ CallOrder[i] /= "internal_links" =>
              Embeds(calls[i].user, <<args.topic>>)
        /\ CallOrder[i] \in KeywordListSections =>
              Embeds(calls[i].user, Join(", ", args.secondary_kws))

C22_Witness ==
    /\ Len(calls) = Len(CallOrder)
    /\ Len(args.secondary_kws) = 2
    /\ args.secondary_kws[1] /= KeywordPool[1]

(***************************************************************************)
(* Profiles without a name or a site.                                      *)
(***************************************************************************)
\* The running request's profile lacks client_name or site.
ProfileIncomplete ==
    pc /= 0 /\ ~({"client_name", "site"} \subseteq DOMAIN args.client_data)

\* C23: generate_brief on a profile that lacks client_name or site fails:
\* it returns no record, it has raised once it is over, and it has sent no
\* request to the provider.
C23_MissingFieldFailsBeforeAnyCall ==
    ProfileIncomplete =>
        /\ outcome.kind /= "returned"
        /\ pc = Done => outcome.kind = "raised"
        /\ Len(calls) = 0

(***************************************************************************)
(* One request per generate call.                                          *)
(***************************************************************************)
\* The step sends one request: the log grows by it alone.
SendsOne == Len(calls') = Len(calls) + 1 /\ SubSeq(calls', 1, Len(calls)) = calls

\* The step is the failure of the request in flight.
RequestFails ==
    /\ Len(answers') = Len(answers) + 1
    /\ answers'[Len(answers')] /= "ok"

SupaReturned(l) ==
    CASE l.op = "get" -> IF l.supa_got.found THEN "profile" ELSE "None"
      [] l.op = "list" -> IF Len(l.supa_list) > 0 THEN "names" ELSE "[]"
      [] OTHER -> l.supa_ret

\* The value by which each operation reports that it failed.
FailureValue(op) ==
    CASE op \in {"create", "update", "delete", "exists"} -> "False"
      [] op = "get" -> "None"
      [] op = "list" -> "[]"

\* C25: an operation of the database store that meets a failing service
\* returns its failure value (False for create, update, delete and
\* client_exists, None for get, the empty list for list), raises nothing,
\* and leaves the table as it was: the request is not made again.  No
\* operation of that store ever ends in an exception.
C25_FailureValueNotException ==
    [][turn = "supabase" /\ turn' = "file" =>
          /\ SupaReturned(last') \in
                {"True", "False", "profile", "None", "names", "[]"}
          /\ ~last'.up =>
                /\ SupaReturned(last') = FailureValue(last.op)
                /\ rows' = rows
      ]_vars

C25_Witness ==
    /\ turn = "file"
    /\ last.op = "exists"
    /\ ~last.up
    /\ last.name \in DOMAIN rows
    /\ last.supa_ret = "False"

(***************************************************************************)
(* Where the document is saved.                                            *)
(***************************************************************************)
\* s with every blank replaced by an underscore.
Underscored(s) == [i \in 1..Len(s) |-> IF s[i] = " " THEN "_" ELSE s[i]]

\* The first n characters of s, all of s when it is shorter.
FirstChars(s, n) == SubSeq(s, 1, IF Len(s) < n THEN Len(s) ELSE n)

\* <client>_<topic>_<timestamp>.docx for the record handed over.
ExpectedName(stamp) ==
    Underscored(brief_data["client_name"]) \o <<"_">>
        \o FirstChars(Underscored(brief_data["topic"]), TopicLimit)
        \o <<"_", stamp, ".docx">>

\* The call saved <client>_<topic>_<timestamp>.docx in output_dir, which
\* exists, and returned the path of that file.
SavedAsNamed ==
    /\ doc.status = "saved"
    /\ \E output_dir \in OutputDirs, now \in Instants :
          /\ doc.filepath = <<output_dir, "/">> \o ExpectedName(now.stamp)
          /\ doc.dirs = {output_dir}
          /\ doc.saved = {doc.filepath}

\* C26: create_brief_document, given a record with a client_name and a
\* topic, writes <client>_<topic>_<timestamp>.docx into the directory of
\* the call, which it creates, with blanks replaced by underscores and the
\* topic cut to its first 30 characters, and returns that path.
C26_SavedUnderClientTopicStamp ==
    (doc.status /= "none" /\ {"client_name", "topic"} \subseteq DOMAIN brief_data)
        => SavedAsNamed

(***************************************************************************)
(* The client_name a stored profile carries.                               *)
(***************************************************************************)
\* C27: in both stores every stored profile's client_name is the name its
\* create was given, whatever create, update and delete operations ran.
C27_ClientNameStaysAsCreated ==
    /\ \A f \in DOMAIN files : files[f]["client_name"] = Val(given.file[f])
    /\ \A k \in DOMAIN rows : rows[k]["client_name"] = Val(given.supa[k])

(***************************************************************************)
(* The provider of a constructed AIProvider.                               *)
(***************************************************************************)
\* C28: a constructed AIProvider's provider is one of the five, so no
\* generate_brief ends in 'Unsupported provider'; a constructor call whose
\* resolved name is none of the five ended in the ValueError of __init__.
C28_ConstructedProviderIsKnown ==
    /\ ai.status = "constructed" => ai.provider \in ProviderSet
    /\ outcome.exc /= "ValueError: Unsupported provider"
    /\ (ai.status /= "unconstructed" /\ ai.provider \notin ProviderSet)
           => ai.status = "ValueError"

\* A generator constructed without an argument took the configured default
\* and has dispatched a request to that provider.
C28_Witness ==
    /\ ai.status = "constructed"
    /\ ai.requested = None
    /\ ai.provider = "mistral"
    /\ Len(calls) > 0
    /\ calls[1].variant = "mistral"

(***************************************************************************)
(* The text of the two formatters.                                         *)
(***************************************************************************)
RestrictionHeaders ==
    <<"Legal restrictions:\n", "\nBrand restrictions:\n",
      "\nSEO restrictions:\n", "\nContent-integrity restrictions:\n">>

HeaderCategories == <<"legal", "brand", "seo", "content_integrity">>

\* The items a profile lists under the i-th category, none when the profile
\* has no restrictions or the restrictions lack the category.
ListedItems(cd, i) ==
    IF "restrictions" \notin DOMAIN cd THEN <<>>
    ELSE IF HeaderCategories[i] \notin DOMAIN cd["restrictions"] THEN <<>>
    ELSE cd["restrictions"][HeaderCategories[i]]

\* Where the i-th header stands: after the headers and item lines before it.
RECURSIVE HeaderAt(_, _)
HeaderAt(cd, i) ==
    IF i = 1 THEN 1
    ELSE HeaderAt(cd, i - 1) + 1 + 3 * Len(ListedItems(cd, i - 1))

\* The four headers in order, each followed by one '- item' line per item.
HeadersThenItems(cd, text) ==
    /\ Len(text) = HeaderAt(cd, 4) + 3 * Len(ListedItems(cd, 4))
    /\ \A i \in 1..4 :
          /\ text[HeaderAt(cd, i)] = RestrictionHeaders[i]
          /\ \A j \in 1..Len(ListedItems(cd, i)) :
                /\ text[HeaderAt(cd, i) + 3 * j - 2] = "- "
                /\ text[HeaderAt(cd, i) + 3 * j - 1] = ListedItems(cd, i)[j]
                /\ text[HeaderAt(cd, i) + 3 * j] = "\n"

\* How the line of each requirement begins.
LineStart(k) ==
    CASE k = "word_count" -> "- Word count: "
      [] k = "readability_score" -> "- Readability: "
      [] k = "tone" -> "- Tone: "
      [] k = "mandatory_mentions" -> "- Mandatory mentions: "
      [] k = "schema_required" -> "- Schema markup required\n"
      [] k = "images_required" -> "- Minimum images: "
      [] k = "cta_required" -> "- CTA required\n"
      [] k = "internal_links_min" -> "- Minimum internal links: "

\* bool(reqs.get(k)) for the profile's requirements.
RequirementTruthy(cd, k) ==
    /\ "requirements" \in DOMAIN cd
    /\ k \in DOMAIN cd["requirements"]
    /\ cd["requirements"][k] /= FalsyValue(k)

\* One line for each truthy requirement, none for the others, and the
\* self-check line last.
TruthyLinesThenSelfCheck(cd, text) ==
    /\ Len(text) > 0
    /\ text[Len(text)] = SelfCheckLine
    /\ \A k \in RequirementFields :
          Cardinality({i \in 1..Len(text) : text[i] = LineStart(k)})
              = IF RequirementTruthy(cd, k) THEN 1 ELSE 0

\* C30: every call of a formatter returned a text, whatever the profile
\* lacks: the restrictions text is the four headers in the order Legal,
\* Brand, SEO, Content-integrity with one '- item' line per listed item in
\* its order; the requirements text has a line exactly for the truthy
\* requirements and ends with the self-check line.
C30_FormattersTotalAndShaped ==
    \A i \in 1..Len(fmt_log) :
        IF fmt_log[i].fn = "restrictions"
        THEN HeadersThenItems(fmt_log[i].client_data, fmt_log[i].text)
        ELSE TruthyLinesThenSelfCheck(fmt_log[i].client_data, fmt_log[i].text)

\* Both formatters ran on a profile that has neither restrictions nor
\* requirements: four headers, and the self-check line alone.
C30_Witness ==
    /\ Len(fmt_log) = 2
    /\ fmt_log[1].fn = "restrictions"
    /\ fmt_log[2].fn = "requirements"
    /\ fmt_log[1].client_data = ProfileMinimal
    /\ fmt_log[1].text = RestrictionHeaders
    /\ fmt_log[2].text = <<SelfCheckLine>>

(***************************************************************************)
(* The brief and its provider in the web session.                          *)
(***************************************************************************)
\* A step that puts a brief into the session.
StoresBrief ==
    /\ session'.generated_brief.set
    /\ session'.generated_brief /= session.generated_brief

\* A web generation that ends without a brief: generate_brief raised.
GenerationFails ==
    /\ front.running = "web"
    /\ front'.running = "none"
    /\ outcome.kind /= "returned"

\* C29: in the web session generated_brief is set only while
\* selected_provider is set: a step that stores a brief stores, in the same
\* step, the provider whose generator produced it; a generation that fails
\* leaves both as they were; and no step leaves a brief without a provider.
C29_BriefOnlyWithProvider ==
    /\ [](session.generated_brief.set => session.selected_provider.set)
    /\ [][/\ StoresBrief => session'.selected_provider = SetTo(ai.provider)
          /\ GenerationFails =>
                /\ session'.generated_brief = session.generated_brief
                /\ session'.selected_provider = session.selected_provider
          /\ session'.generated_brief.set => session'.selected_provider.set
         ]_vars

\* A brief generated with mistral is in the session and a later generation
\* has failed.
C29_Witness ==
    /\ front.app = "web"
    /\ session.generated_brief.set
    /\ session.selected_provider = SetTo("mistral")
    /\ front.report = "Error generating brief"

====
